---------------------------- MODULE Spec2Model ----------------------------
(***************************************************************************)
(* Call negotiation layer of Saumya-Kushwah/social.                        *)
(*                                                                         *)
(* Modelled: the production-ready useWebRTC hook (src/unnamed/part_011,    *)
(* lines 751-1404), the CallProvider that drives it (src/unnamed/part_013) *)
(* and the signaling relay (src/socket-server.ts).                         *)
(*                                                                         *)
(* JavaScript runs the hook on one thread.  A handler runs without         *)
(* interruption up to its next await on a browser promise (getUserMedia,   *)
(* createOffer, setLocalDescription, setRemoteDescription, createAnswer,   *)
(* addIceCandidate); what is left of it is a record in tasks[c], resumed   *)
(* by a Resolve action.  An await on an already settled promise is not a   *)
(* suspension point for socket events, timers or clicks.  React state      *)
(* (callStatus, ...) is read by the closures of the render that follows    *)
(* the update; updates are modelled as visible at once.                    *)
(***************************************************************************)
EXTENDS Integers, Sequences, FiniteSets, Bags, TLC

\* ------------------------------------------------------------- bounds
\* Calls made over a run of Spec, the session-level specification.
MaxCalls == 2
\* Calls made over a run of SpecIce, the specification with remote candidates.
MaxIceCalls == 2
\* ICE candidates a peer connection gathers, and a peer sends, per call.
MaxCands == 2
\* Calls made over a run of SpecMedia, the specification with the media toggles.
MaxMediaCalls == 1
\* Screen shares started over a run of SpecMedia.
MaxShares == 1
\* Calls made over a run of SpecStable, the stable-ref hook's specification.
MaxStableCalls == 2
\* Calls made and screen shares started over a run of SpecStableMedia.
MaxStableMediaCalls == 1
MaxStableShares == 1

MaxLegacyCalls == 1

\* Malformed candidates a peer sends per call.
MaxBadCands == 1

Users == {"A", "B", "C"}

NoUser == "none"
NoCallId == 0
NoPc == 0
NoSocket == 0
NoStream == 0
NoError == ""
NoCall == [callId |-> NoCallId, from |-> NoUser, isVideoCall |-> FALSE]

\* isVideoCall of the calls that are started (startVideoCall).
VideoModes == {TRUE}

VARIABLES
    hook,        \* hook[c]: the refs and React state of useWebRTC
    provider,    \* provider[c]: incomingCall / incomingCallRef of CallProvider
    pcs,         \* pcs[c]: the RTCPeerConnection objects c created, by index
    streams,     \* streams[c]: the MediaStreams c captured, by index
    tasks,       \* tasks[c]: handlers suspended at an await
    timers,      \* timers[c]: pending setTimeout(..., 500) of endCall
    toRelay,     \* bag of events emitted by clients, not yet handled by the relay
    toClient,    \* bag of events forwarded by the relay, not yet handled
    onlineUsers, \* the relay's registry: userId -> socket id, or NoSocket
    sockets,     \* sockets[s]: handshake userId of socket s, and if it is connected
    emits,       \* what the relay emitted, and to which socket, for the last event
    relayLog,    \* bag of the events the relay has handled
    calls        \* calls[k]: who started call id k, with whom

vars == <<hook, provider, pcs, streams, tasks, timers,
          toRelay, toClient, onlineUsers, sockets, emits, relayLog, calls>>

relayVars == <<toClient, onlineUsers, sockets, emits, relayLog>>

\* `call-${Date.now()}-${Math.random()...}`: an id no call had before.
nextCallId == Len(calls) + 1

\* A call as the model books it: who started it, whether the peer knows of it,
\* which of the client's accept-call and webrtc-offer the peer has (out), and
\* which session events (got) and candidates (cands) the peer has had delivered
\* to the client while the call was the client's current one.
NewCall(from, to, known) ==
    [from |-> from, to |-> to, known |-> known, out |-> {}, got |-> {}, cands |-> {}]

\* ------------------------------------------------------------ records
Msg(type, from, to, id, cand, video) ==
    [type |-> type, from |-> from, to |-> to, callId |-> id,
     cand |-> cand, isVideoCall |-> video]

InitHook ==
    [callStatus |-> "idle", callId |-> NoCallId, isVideoCall |-> FALSE,
     isVideoEnabled |-> TRUE, isAudioEnabled |-> TRUE,
     isScreenSharing |-> FALSE,
     otherUser |-> NoUser, error |-> NoError,
     localStream |-> NoStream, remoteStream |-> FALSE,
     peerConnectionRef |-> NoPc, localStreamRef |-> NoStream,
     screenStreamRef |-> NoStream,
     callIdRef |-> NoCallId, isVideoCallRef |-> FALSE,
     otherUserIdRef |-> NoUser, isEndingCallRef |-> FALSE,
     isInitiatorRef |-> FALSE,
     iceCandidateQueueRef |-> <<>>, isRemoteDescriptionSetRef |-> FALSE]

InitProvider == [incomingCall |-> NoCall, incomingCallRef |-> NoCall]

\* new RTCPeerConnection(ICE_SERVERS), with the activeCallId its handlers close
\* over; tracks is the stream whose tracks were added, videoSender the stream
\* whose video track the video sender holds.  The last five fields are the
\* model's record of what reached the connection: the session events handled
\* for it (seen), the remote candidates
\* the handler took for it (received), those it pushed on the queue (queued),
\* those handed to addIceCandidate while the connection accepted them (applied)
\* and while it did not (invalid).
NewPc(id) ==
    [callId |-> id, closed |-> FALSE, signalingState |-> "stable",
     localDescription |-> FALSE, remoteDescription |-> FALSE,
     tracks |-> NoStream, videoSender |-> NoStream,
     gathered |-> 0, connectionState |-> "new",
     seen |-> {}, received |-> <<>>, queued |-> <<>>,
     applied |-> <<>>, invalid |-> <<>>]

\* A suspended handler: pc is the connection the awaited operation was invoked
\* on, src the connection that created the description being set (for
\* replaceTrack, the stream whose video track is given), queue what is left of
\* the array processIceQueue iterates.
Task(kind, pc, id, peer, video, queue) ==
    [kind |-> kind, pc |-> pc, src |-> NoPc, callId |-> id, peer |-> peer,
     isVideoCall |-> video, queue |-> queue]

\* The state one client's code can touch, with the side effects of the handler
\* that is running: log is the transcript of socket.emit, track.stop, pc.close
\* and onCallEnded invocations, in order.
Local(c) ==
    [hook |-> hook[c], provider |-> provider[c], pcs |-> pcs[c],
     streams |-> streams[c], tasks |-> tasks[c], timers |-> timers[c],
     log |-> <<>>]

NoMsg == Msg("", NoUser, NoUser, NoCallId, 0, FALSE)

Effect(op, m, id) == [op |-> op, msg |-> m, id |-> id]

Emit(L, m) == [L EXCEPT !.log = Append(@, Effect("emit", m, 0))]

Emitted(L) == SelectSeq(L.log, LAMBDA e : e.op = "emit")

Count(L, op) == Len(SelectSeq(L.log, LAMBDA e : e.op = op))

RECURSIVE SeqToBag(_)
SeqToBag(s) ==
    IF s = <<>> THEN EmptyBag ELSE SetToBag({Head(s)}) (+) SeqToBag(Tail(s))

setError(L, e) == [L EXCEPT !.hook.error = e]

AddTask(L, t) == [L EXCEPT !.tasks = @ \cup {t}]

\* ------------------------------------------------- browser objects
\* MediaStreamTrack.stop() on every track of stream s.
StopTracks(L, s) ==
    IF s = NoStream THEN L
    ELSE [L EXCEPT !.streams[s].live = FALSE,
                   !.log = Append(@, Effect("stop", NoMsg, s))]

\* RTCPeerConnection.close().  Every operation on a closed connection is
\* rejected whatever the connection held, so a closed connection keeps only its
\* call id; and the promise of an operation in flight when the connection
\* closes is never settled (W3C webrtc, "if connection.[[IsClosed]] is true,
\* abort these steps"), so the handlers awaiting one never resume.
ClosePc(L, p) ==
    IF p = NoPc THEN L
    ELSE [L EXCEPT !.pcs[p] = [NewPc(@.callId) EXCEPT !.closed = TRUE,
                                                      !.signalingState = "closed",
                                                      !.connectionState = "closed"],
                   !.tasks = {t \in @ : t.pc # p},
                   !.log = Append(@, Effect("close", NoMsg, p))]

\* pc.addIceCandidate(candidate), as invoked: the browser applies candidates in
\* the order of the calls, and rejects one made on a closed connection or
\* before a remote description is set (InvalidStateError) and one that is
\* malformed (OperationError; a malformed candidate is a negative number).
addIceCandidate(L, p, cand) ==
    IF ~L.pcs[p].closed /\ L.pcs[p].remoteDescription /\ cand > 0
    THEN [L EXCEPT !.pcs[p].applied = Append(@, cand)]
    ELSE [L EXCEPT !.pcs[p].invalid = Append(@, cand)]

\* ------------------------------------------------- CallProvider
\* onCallEnded: CallProvider's handleCallEnded.
onCallEnded(L) ==
    [L EXCEPT !.provider = InitProvider,
              !.log = Append(@, Effect("onCallEnded", NoMsg, 0))]

\* ------------------------------------------------- useWebRTC
\* endCall leaving the screen-share stream alone.
endCallKeepingScreen(c, L) ==
    IF L.hook.isEndingCallRef THEN L
    ELSE
      LET h  == L.hook
          L1 == IF h.otherUserIdRef # NoUser /\ h.callIdRef # NoCallId
                THEN Emit(L, Msg("end-call", c, h.otherUserIdRef, h.callIdRef, 0, FALSE))
                ELSE L
          L2 == StopTracks(L1, h.localStreamRef)
          L3 == ClosePc(L2, h.peerConnectionRef)
          L4 == [L3 EXCEPT
                   !.hook = [InitHook EXCEPT !.isEndingCallRef = TRUE,
                                             !.isVideoCall = h.isVideoCall,
                                             !.screenStreamRef = h.screenStreamRef],
                   !.timers = @ + 1]
      IN  onCallEnded(L4)

\* endCall: the guard, the notification, the cleanup, the reset, the timer.
endCall(c, L) ==
    IF L.hook.isEndingCallRef THEN L
    ELSE
      LET h  == L.hook
          L1 == IF h.otherUserIdRef # NoUser /\ h.callIdRef # NoCallId
                THEN Emit(L, Msg("end-call", c, h.otherUserIdRef, h.callIdRef, 0, FALSE))
                ELSE L
          L2 == StopTracks(StopTracks(L1, h.localStreamRef), h.screenStreamRef)
          L3 == ClosePc(L2, h.peerConnectionRef)
          L4 == [L3 EXCEPT
                   !.hook = [@ EXCEPT
                       !.isEndingCallRef = TRUE,
                       !.peerConnectionRef = NoPc,
                       !.localStreamRef = NoStream,
                       !.screenStreamRef = NoStream,
                       !.otherUserIdRef = NoUser,
                       !.callIdRef = NoCallId,
                       !.isInitiatorRef = FALSE,
                       !.isVideoCallRef = FALSE,
                       !.isRemoteDescriptionSetRef = FALSE,
                       !.iceCandidateQueueRef = <<>>,
                       !.localStream = NoStream,
                       !.remoteStream = FALSE,
                       !.callStatus = "idle",
                       !.callId = NoCallId,
                       !.otherUser = NoUser,
                       !.isScreenSharing = FALSE,
                       !.isVideoEnabled = TRUE,
                       !.isAudioEnabled = TRUE,
                       !.error = NoError],
                   !.timers = @ + 1]
      IN  onCallEnded(L4)

\* createPeerConnection(activeCallId): the new connection is the last of L.pcs.
createPeerConnection(L, activeCallId) ==
    [L EXCEPT !.hook.isRemoteDescriptionSetRef = FALSE,
              !.hook.iceCandidateQueueRef = <<>>,
              !.pcs = Append(@, NewPc(activeCallId))]

\* A captured MediaStream: live until its tracks are stopped; hasVideo says
\* whether it has a video track (it always has an audio track, or for a screen
\* capture none that the code touches); video and audio are the enabled flags
\* of the video and the audio track; onended says whether the code has set the
\* video track's onended.
NewStream(kind, hasVideo) ==
    [kind |-> kind, live |-> TRUE, hasVideo |-> hasVideo,
     video |-> TRUE, audio |-> TRUE, onended |-> FALSE]

\* getUserMedia(video, true) after navigator.mediaDevices.getUserMedia resolved.
getUserMediaResolved(L, video) ==
    LET s == Len(L.streams) + 1
    IN  [L EXCEPT !.streams = Append(@, NewStream("camera", video)),
                  !.hook.localStreamRef = s,
                  !.hook.localStream = s]

\* getUserMedia's catch: the message by error.name.
getUserMediaError(name) ==
    IF name = "NotAllowedError" THEN "Camera/microphone access denied"
    ELSE IF name = "NotFoundError" THEN "No camera/microphone found"
    ELSE "Could not access camera/microphone"

rejectCall(c, L, incomingCallId, fromUserId) ==
    LET L1 == Emit(L, Msg("reject-call", c, fromUserId, incomingCallId, 0, FALSE))
    IN  [L1 EXCEPT !.hook.callIdRef = NoCallId,
                   !.hook.callStatus = "idle",
                   !.hook.callId = NoCallId,
                   !.hook.otherUser = NoUser,
                   !.hook.error = NoError]

\* startCall / answerCall from `const stream = await getUserMedia(...)` on, with
\* stream s: create the connection, add the tracks, announce.
afterMedia(c, L, t, s, event) ==
    LET L1 == createPeerConnection(L, t.callId)
        p  == Len(L1.pcs)
        L2 == [L1 EXCEPT !.hook.peerConnectionRef = p, !.pcs[p].tracks = s,
                         !.pcs[p].videoSender =
                             IF L1.streams[s].hasVideo THEN s ELSE NoStream]
    IN  Emit(L2, Msg(event, c, t.peer, t.callId, 0, t.isVideoCall))

\* A call operation up to its await of getUserMedia: an existing local stream is
\* reused without suspending.
acquireMedia(c, L, t, event) ==
    IF L.hook.localStreamRef # NoStream
    THEN afterMedia(c, L, t, L.hook.localStreamRef, event)
    ELSE AddTask(L, t)

startCall(c, L, user, video, newCallId) ==
    LET L1 == [L EXCEPT !.hook = [@ EXCEPT
                   !.error = NoError,
                   !.isEndingCallRef = FALSE,
                   !.isInitiatorRef = TRUE,
                   !.callIdRef = newCallId,
                   !.isVideoCallRef = video,
                   !.callId = newCallId,
                   !.isVideoCall = video,
                   !.otherUser = user,
                   !.callStatus = "calling",
                   !.otherUserIdRef = user]]
    IN  acquireMedia(c, L1,
            Task("startCall:getUserMedia", NoPc, newCallId, user, video, <<>>),
            "initiate-call")

answerCall(c, L, incomingCallId, fromUser, video) ==
    LET L1 == [L EXCEPT !.hook = [@ EXCEPT
                   !.error = NoError,
                   !.isEndingCallRef = FALSE,
                   !.isInitiatorRef = FALSE,
                   !.callIdRef = incomingCallId,
                   !.isVideoCallRef = video,
                   !.callId = incomingCallId,
                   !.isVideoCall = video,
                   !.otherUser = fromUser,
                   !.callStatus = "ringing",
                   !.otherUserIdRef = fromUser]]
    IN  acquireMedia(c, L1,
            Task("answerCall:getUserMedia", NoPc, incomingCallId, fromUser, video, <<>>),
            "accept-call")

\* startCall resumed from its await of getUserMedia.
startCallResumed(c, L, t, ok) ==
    LET L0 == [L EXCEPT !.tasks = @ \ {t}]
    IN  IF ok
        THEN afterMedia(c, getUserMediaResolved(L0, t.isVideoCall), t, Len(L0.streams) + 1,
                        "initiate-call")
        ELSE endCall(c, [setError(L0, getUserMediaError("NotAllowedError"))
                            EXCEPT !.hook.callStatus = "idle"])

\* answerCall resumed from its await of getUserMedia.
answerCallResumed(c, L, t, ok) ==
    LET L0 == [L EXCEPT !.tasks = @ \ {t}]
    IN  IF ok
        THEN afterMedia(c, getUserMediaResolved(L0, t.isVideoCall), t, Len(L0.streams) + 1,
                        "accept-call")
        ELSE rejectCall(c, setError(L0, getUserMediaError("NotAllowedError")),
                        t.callId, t.peer)


\* ------------------------------------------------- media toggles
\* toggleVideo telling the peer of the change.
toggleVideoSignalling(c, L) ==
    LET s == L.hook.localStreamRef
    IN  IF s = NoStream \/ ~L.streams[s].hasVideo THEN L
        ELSE Emit([L EXCEPT !.streams[s].video = ~@,
                            !.hook.isVideoEnabled = ~L.streams[s].video],
                  Msg("webrtc-offer", c, L.hook.otherUserIdRef, L.hook.callIdRef,
                      0, FALSE))

\* toggleVideo: the video track of the local stream is flipped.
toggleVideo(c, L) ==
    LET s == L.hook.localStreamRef
    IN  IF s = NoStream \/ ~L.streams[s].hasVideo THEN L
        ELSE [L EXCEPT !.streams[s].video = ~@,
                       !.hook.isVideoEnabled = ~L.streams[s].video]

\* toggleAudio: the audio track of the local stream is flipped.
toggleAudio(c, L) ==
    LET s == L.hook.localStreamRef
    IN  IF s = NoStream THEN L
        ELSE [L EXCEPT !.streams[s].audio = ~@,
                       !.hook.isAudioEnabled = ~L.streams[s].audio]

\* toggleScreenShare's stop branch from `screenStreamRef.current?.getTracks()` on.
screenShareStopped(L) ==
    [StopTracks(L, L.hook.screenStreamRef)
        EXCEPT !.hook.screenStreamRef = NoStream, !.hook.isScreenSharing = FALSE]

\* toggleScreenShare as created by a render in which isScreenSharing was
\* `sharing`: the start branch awaits getDisplayMedia; the stop branch awaits
\* replaceTrack if the connection has a video sender and there is a camera track.
toggleScreenShare(c, L, sharing) ==
    LET p == L.hook.peerConnectionRef
        s == L.hook.localStreamRef
    IN  IF ~sharing
        THEN AddTask(L, Task("toggleScreenShare:getDisplayMedia",
                             NoPc, NoCallId, NoUser, FALSE, <<>>))
        ELSE IF /\ p # NoPc /\ L.pcs[p].videoSender # NoStream
                /\ s # NoStream /\ L.streams[s].hasVideo
        THEN AddTask(L, [Task("toggleScreenShare:replaceTrack(camera)",
                              p, NoCallId, NoUser, FALSE, <<>>) EXCEPT !.src = s])
        ELSE screenShareStopped(L)

\* the start branch after `await navigator.mediaDevices.getDisplayMedia(...)`;
\* the user dismissing the picker rejects it with NotAllowedError, the browser
\* refusing a request made outside a user gesture with InvalidStateError.
screenShareAfterDisplayMedia(c, L, t, ok) ==
    LET L0 == [L EXCEPT !.tasks = @ \ {t}]
        s  == Len(L0.streams) + 1
        p  == L0.hook.peerConnectionRef
        L1 == [L0 EXCEPT !.streams = Append(@, NewStream("screen", TRUE)),
                         !.hook.screenStreamRef = s]
    IN  IF ~ok
        THEN IF t.kind = "toggleScreenShare:getDisplayMedia"
             THEN setError(L0, "Screen share permission denied")
             ELSE L0
        ELSE IF p # NoPc /\ L1.pcs[p].videoSender # NoStream
        THEN AddTask(L1, [t EXCEPT !.kind = "toggleScreenShare:replaceTrack(screen)",
                                   !.pc = p, !.src = s])
        ELSE [L1 EXCEPT !.streams[s].onended = TRUE,
                        !.hook.isScreenSharing = TRUE]

\* videoTrack.onended of screen capture s, as set by the start branch: the
\* toggleScreenShare of the render that started the share, in which
\* isScreenSharing was false, runs outside a user gesture.
onended(c, L, s) ==
    LET L1 == toggleScreenShare(c, L, FALSE)
    IN  [L1 EXCEPT !.tasks =
            L.tasks \cup {[t EXCEPT !.kind = "toggleScreenShare:getDisplayMedia(onended)"] :
                             t \in L1.tasks \ L.tasks}]

\* the start branch after `await sender.replaceTrack(videoTrack)`
screenShareAfterReplace(c, L, t, ok) ==
    LET L0 == [L EXCEPT !.tasks = @ \ {t}]
    IN  IF ok /\ ~L0.pcs[t.pc].closed
        THEN [L0 EXCEPT !.pcs[t.pc].videoSender = t.src,
                        !.streams[t.src].onended = TRUE,
                        !.hook.isScreenSharing = TRUE]
        ELSE L0

\* the stop branch stopping the capture without the camera track being back.
screenShareAfterRestoreDropping(c, L, t, ok) ==
    LET L0 == [L EXCEPT !.tasks = @ \ {t}]
    IN  IF ok /\ ~L0.pcs[t.pc].closed THEN screenShareStopped(L0) ELSE L0

\* the stop branch after `await sender.replaceTrack(videoTrack)`
screenShareAfterRestore(c, L, t, ok) ==
    LET L0 == [L EXCEPT !.tasks = @ \ {t}]
    IN  IF ok /\ ~L0.pcs[t.pc].closed
        THEN screenShareStopped([L0 EXCEPT !.pcs[t.pc].videoSender = t.src])
        ELSE L0

\* ------------------------------------------------- negotiation
\* What the browser accepts, by RTCPeerConnection.signalingState.
CanCreateOffer(pc) == ~pc.closed /\ pc.signalingState \in {"stable", "have-local-offer"}

CanSetLocalOffer(pc) == ~pc.closed /\ pc.signalingState \in {"stable", "have-local-offer"}

CanSetRemoteOffer(pc) == ~pc.closed /\ pc.signalingState \in {"stable", "have-remote-offer"}

CanCreateAnswer(pc) == ~pc.closed /\ pc.signalingState = "have-remote-offer"

CanSetLocalAnswer(pc) == ~pc.closed /\ pc.signalingState = "have-remote-offer"

CanSetRemoteAnswer(pc) == ~pc.closed /\ pc.signalingState = "have-local-offer"

\* handleOffer from `const answer = await peerConnectionRef.current.createAnswer()`
offerAfterDrain(c, L, t) ==
    IF L.hook.peerConnectionRef = NoPc
    THEN setError(L, "Failed to handle offer")
    ELSE AddTask(L, [t EXCEPT !.kind = "handleOffer:createAnswer",
                              !.pc = L.hook.peerConnectionRef, !.queue = <<>>])

\* The rest of the handler that awaited processIceQueue: handleAnswer has none.
afterDrain(c, L, t) ==
    IF t.kind = "handleOffer:addIceCandidate" THEN offerAfterDrain(c, L, t) ELSE L

\* processIceQueue giving up at the first candidate the connection rejects.
drainAborting(c, L, t) ==
    IF t.queue = <<>>
    THEN afterDrain(c, [L EXCEPT !.hook.iceCandidateQueueRef = <<>>], t)
    ELSE IF Head(t.queue) < 0
    THEN setError(addIceCandidate(L, t.pc, Head(t.queue)), "Failed to handle offer")
    ELSE AddTask(addIceCandidate(L, t.pc, Head(t.queue)),
                 [t EXCEPT !.queue = Tail(@)])

\* processIceQueue resumed from an await of addIceCandidate, or entered when
\* t.queue is the whole queue: the next candidate is handed to the local `pc`
\* and the loop suspends again; after the last one the queue ref is replaced.
drain(c, L, t) ==
    IF t.queue = <<>>
    THEN afterDrain(c, [L EXCEPT !.hook.iceCandidateQueueRef = <<>>], t)
    ELSE AddTask(addIceCandidate(L, t.pc, Head(t.queue)),
                 [t EXCEPT !.queue = Tail(@)])

\* processIceQueue emptying the queue without handing it to the connection.
processIceQueueDropping(c, L, t) ==
    afterDrain(c, [L EXCEPT !.hook.iceCandidateQueueRef = <<>>], t)

processIceQueue(c, L, t) ==
    LET pc    == L.hook.peerConnectionRef
        queue == L.hook.iceCandidateQueueRef
    IN  IF pc = NoPc \/ queue = <<>>
        THEN afterDrain(c, L, t)
        ELSE drain(c, L, [t EXCEPT !.pc = pc, !.queue = queue])

\* 1. call-accepted
handleCallAccepted(c, L, m) ==
    IF /\ L.hook.callIdRef = m.callId
       /\ L.hook.peerConnectionRef # NoPc
       /\ L.hook.isInitiatorRef
    THEN AddTask(L, Task("handleCallAccepted:createOffer",
                         L.hook.peerConnectionRef, m.callId, m.from, FALSE, <<>>))
    ELSE L

\* after `await peerConnectionRef.current.createOffer(...)`
callAcceptedAfterCreateOffer(c, L, t, ok) ==
    LET L0 == [L EXCEPT !.tasks = @ \ {t}]
        p  == L0.hook.peerConnectionRef
    IN  IF ok /\ CanCreateOffer(L0.pcs[t.pc]) /\ p # NoPc
        THEN AddTask(L0, [t EXCEPT !.kind = "handleCallAccepted:setLocalDescription",
                                   !.pc = p, !.src = t.pc])
        ELSE setError(L0, "Failed to create offer")

\* after `await peerConnectionRef.current.setLocalDescription(offer)`
callAcceptedAfterSetLocal(c, L, t, ok) ==
    LET L0 == [L EXCEPT !.tasks = @ \ {t}]
    IN  IF ok /\ t.src = t.pc /\ CanSetLocalOffer(L0.pcs[t.pc])
        THEN Emit([L0 EXCEPT !.pcs[t.pc].localDescription = TRUE,
                             !.pcs[t.pc].signalingState = "have-local-offer"],
                  Msg("webrtc-offer", c, t.peer, t.callId, 0, FALSE))
        ELSE setError(L0, "Failed to create offer")

\* 2. webrtc-offer
handleOffer(c, L, m) ==
    IF L.hook.peerConnectionRef # NoPc /\ L.hook.callIdRef = m.callId
    THEN AddTask(L, Task("handleOffer:setRemoteDescription",
                         L.hook.peerConnectionRef, m.callId, m.from, FALSE, <<>>))
    ELSE L

\* after `await peerConnectionRef.current.setRemoteDescription(offer)`; the
\* connection fires ontrack for the caller's tracks as the offer is applied.
offerAfterSetRemote(c, L, t, ok) ==
    LET L0 == [L EXCEPT !.tasks = @ \ {t}]
    IN  IF ok /\ CanSetRemoteOffer(L0.pcs[t.pc])
        THEN LET L1 == [L0 EXCEPT !.pcs[t.pc].remoteDescription = TRUE,
                                  !.pcs[t.pc].signalingState = "have-remote-offer",
                                  !.hook.remoteStream = TRUE,
                                  !.hook.isRemoteDescriptionSetRef = TRUE]
             IN  processIceQueue(c, L1,
                     [t EXCEPT !.kind = "handleOffer:addIceCandidate"])
        ELSE setError(L0, "Failed to handle offer")

\* handleOffer's processIceQueue resumed from `await pc.addIceCandidate(...)`
offerDrainResumed(c, L, t) ==
    drain(c, [L EXCEPT !.tasks = @ \ {t}], t)

\* after `await peerConnectionRef.current.createAnswer()`
offerAfterCreateAnswer(c, L, t, ok) ==
    LET L0 == [L EXCEPT !.tasks = @ \ {t}]
        p  == L0.hook.peerConnectionRef
    IN  IF ok /\ CanCreateAnswer(L0.pcs[t.pc]) /\ p # NoPc
        THEN AddTask(L0, [t EXCEPT !.kind = "handleOffer:setLocalDescription",
                                   !.pc = p, !.src = t.pc])
        ELSE setError(L0, "Failed to handle offer")

\* handleOffer setting the answer without sending it.
offerAfterSetLocalSilent(c, L, t, ok) ==
    LET L0 == [L EXCEPT !.tasks = @ \ {t}]
    IN  IF ok /\ t.src = t.pc /\ CanSetLocalAnswer(L0.pcs[t.pc])
        THEN [L0 EXCEPT !.pcs[t.pc].localDescription = TRUE,
                        !.pcs[t.pc].signalingState = "stable"]
        ELSE setError(L0, "Failed to handle offer")

\* after `await peerConnectionRef.current.setLocalDescription(answer)`
offerAfterSetLocal(c, L, t, ok) ==
    LET L0 == [L EXCEPT !.tasks = @ \ {t}]
    IN  IF ok /\ t.src = t.pc /\ CanSetLocalAnswer(L0.pcs[t.pc])
        THEN Emit([L0 EXCEPT !.pcs[t.pc].localDescription = TRUE,
                             !.pcs[t.pc].signalingState = "stable"],
                  Msg("webrtc-answer", c, t.peer, t.callId, 0, FALSE))
        ELSE setError(L0, "Failed to handle offer")

\* handleAnswer without the callId comparison.
handleAnswerAnyCall(c, L, m) ==
    IF L.hook.peerConnectionRef # NoPc
    THEN AddTask(L, Task("handleAnswer:setRemoteDescription",
                         L.hook.peerConnectionRef, m.callId, m.from, FALSE, <<>>))
    ELSE L

\* 3. webrtc-answer
handleAnswer(c, L, m) ==
    IF L.hook.peerConnectionRef # NoPc /\ L.hook.callIdRef = m.callId
    THEN AddTask(L, Task("handleAnswer:setRemoteDescription",
                         L.hook.peerConnectionRef, m.callId, m.from, FALSE, <<>>))
    ELSE L

\* after `await peerConnectionRef.current.setRemoteDescription(answer)`
answerAfterSetRemote(c, L, t, ok) ==
    LET L0 == [L EXCEPT !.tasks = @ \ {t}]
    IN  IF ok /\ CanSetRemoteAnswer(L0.pcs[t.pc])
        THEN LET L1 == [L0 EXCEPT !.pcs[t.pc].remoteDescription = TRUE,
                                  !.pcs[t.pc].signalingState = "stable",
                                  !.hook.remoteStream = TRUE,
                                  !.hook.isRemoteDescriptionSetRef = TRUE]
             IN  processIceQueue(c, L1,
                     [t EXCEPT !.kind = "handleAnswer:addIceCandidate"])
        ELSE setError(L0, "Failed to handle answer")

\* handleAnswer's processIceQueue resumed from `await pc.addIceCandidate(...)`
answerDrainResumed(c, L, t) ==
    drain(c, [L EXCEPT !.tasks = @ \ {t}], t)

\* handleIceCandidate without the isRemoteDescriptionSetRef gate.
handleIceCandidateUngated(c, L, m) ==
    LET p == L.hook.peerConnectionRef
    IN  IF p # NoPc /\ L.hook.callIdRef = m.callId
        THEN addIceCandidate([L EXCEPT !.pcs[p].received = Append(@, m.cand)],
                             p, m.cand)
        ELSE L

\* 4. webrtc-ice-candidate; received is the model's record of the candidates
\* the handler took for the connection, in order.
handleIceCandidate(c, L, m) ==
    LET p == L.hook.peerConnectionRef
    IN  IF p # NoPc /\ L.hook.callIdRef = m.callId
        THEN LET L1 == [L EXCEPT !.pcs[p].received = Append(@, m.cand)]
             IN  IF L1.hook.isRemoteDescriptionSetRef
                 THEN addIceCandidate(L1, p, m.cand)
                 ELSE [L1 EXCEPT !.hook.iceCandidateQueueRef = Append(@, m.cand),
                                 !.pcs[p].queued = Append(@, m.cand)]
        ELSE L

\* handleCallRejected reporting the rejection and leaving the call as it is.
handleCallRejectedKeeping(c, L, m) == setError(L, "Call rejected")

\* 5. call-rejected
handleCallRejected(c, L, m) == endCall(c, setError(L, "Call rejected"))

\* handleCallEnded answering every call-ended with an end-call of its own.
handleCallEndedEchoing(c, L, m) ==
    endCall(c, Emit(L, Msg("end-call", c, m.from, m.callId, 0, FALSE)))

\* 7. call-ended
handleCallEnded(c, L, m) == endCall(c, L)

\* ------------------------------------------------- CallProvider
\* handleCallInitiated recording the call whatever callStatus is.
handleCallInitiatedRecording(c, L, m) ==
    IF L.provider.incomingCallRef.callId = m.callId THEN L
    ELSE LET data == [callId |-> m.callId, from |-> m.from,
                      isVideoCall |-> m.isVideoCall]
         IN  [L EXCEPT !.provider = [incomingCall |-> data, incomingCallRef |-> data]]

handleCallInitiated(c, L, m) ==
    IF L.provider.incomingCallRef.callId = m.callId THEN L
    ELSE IF L.hook.callStatus = "idle"
    THEN LET data == [callId |-> m.callId, from |-> m.from,
                      isVideoCall |-> m.isVideoCall]
         IN  [L EXCEPT !.provider = [incomingCall |-> data, incomingCallRef |-> data]]
    ELSE Emit(L, Msg("reject-call", c, m.from, m.callId, 0, FALSE))

\* socket.on("disconnect", handleDisconnect)
handleDisconnect(c, L) ==
    IF L.hook.callStatus # "idle" THEN endCall(c, L) ELSE L

handleAcceptCall(c, L) ==
    LET ic == L.provider.incomingCall
    IN  IF ic # NoCall
        THEN [answerCall(c, L, ic.callId, ic.from, ic.isVideoCall)
                EXCEPT !.provider = InitProvider]
        ELSE L

handleRejectCall(c, L) ==
    LET ic == L.provider.incomingCall
    IN  IF ic # NoCall
        THEN [rejectCall(c, L, ic.callId, ic.from) EXCEPT !.provider = InitProvider]
        ELSE L


\* ------------------------------------------------- peer connection events
\* pc.onicecandidate with a candidate: the n-th local candidate of connection p.
onicecandidate(c, L, p) ==
    LET n  == L.pcs[p].gathered + 1
        L1 == [L EXCEPT !.pcs[p].gathered = n]
    IN  IF L.hook.otherUserIdRef # NoUser
        THEN Emit(L1, Msg("webrtc-ice-candidate", c, L.hook.otherUserIdRef,
                          L.pcs[p].callId, n, FALSE))
        ELSE L1

\* onconnectionstatechange ending the call on "disconnected" as on "closed".
onconnectionstatechangeStrict(c, L, p, state) ==
    LET L1 == [L EXCEPT !.pcs[p].connectionState = state]
    IN  CASE state = "connected" ->
               [L1 EXCEPT !.hook.callStatus = "connected", !.hook.error = NoError]
          [] state = "failed" ->
               setError(L1, "Connection failed. Check network/firewall.")
          [] state \in {"closed", "disconnected"} ->
               IF ~L1.hook.isEndingCallRef THEN endCall(c, L1) ELSE L1
          [] OTHER -> L1

\* pc.onconnectionstatechange, pc.connectionState having become `state`.
onconnectionstatechange(c, L, p, state) ==
    LET L1 == [L EXCEPT !.pcs[p].connectionState = state]
    IN  CASE state = "connected" ->
               [L1 EXCEPT !.hook.callStatus = "connected", !.hook.error = NoError]
          [] state = "failed" ->
               setError(L1, "Connection failed. Check network/firewall.")
          [] state = "closed" ->
               IF ~L1.hook.isEndingCallRef THEN endCall(c, L1) ELSE L1
          [] OTHER -> L1

\* The connection states the browser moves an open connection through: it can
\* connect once both descriptions are set (the remote candidates it has not
\* been given it can learn from the peer's connectivity checks).
NextConnectionStates(pc) ==
    IF pc.closed THEN {}
    ELSE CASE pc.connectionState = "new" ->
                IF pc.localDescription /\ pc.remoteDescription
                THEN {"connected"} ELSE {}
           [] pc.connectionState = "connected" -> {"disconnected"}
           [] pc.connectionState = "disconnected" -> {"connected", "failed"}
           [] OTHER -> {}

\* ------------------------------------------------- useWebRTC, stable-ref variant
\* The hook of hooks/useWebRTC.ts that keeps endCall behind endCallRef; its
\* state is the same record as the production hook's.
cleanupStreams(L) ==
    LET h  == L.hook
        L1 == StopTracks(StopTracks(L, h.localStreamRef), h.screenStreamRef)
    IN  [L1 EXCEPT !.hook.localStreamRef = NoStream,
                   !.hook.screenStreamRef = NoStream,
                   !.hook.localStream = NoStream,
                   !.hook.remoteStream = FALSE]

\* endCallRef.current: the guard, the notification, the close, the cleanup,
\* the reset, onCallEnded, the timer.
endCallRef(c, L) ==
    IF L.hook.isEndingCallRef THEN L
    ELSE
      LET h  == L.hook
          L1 == IF h.otherUserIdRef # NoUser /\ h.callIdRef # NoCallId
                THEN Emit(L, Msg("end-call", c, h.otherUserIdRef, h.callIdRef, 0, FALSE))
                ELSE L
          L2 == [ClosePc(L1, h.peerConnectionRef) EXCEPT
                   !.hook.isEndingCallRef = TRUE,
                   !.hook.peerConnectionRef = NoPc]
          L3 == cleanupStreams(L2)
          L4 == [L3 EXCEPT
                   !.hook = [@ EXCEPT
                       !.otherUserIdRef = NoUser,
                       !.callIdRef = NoCallId,
                       !.isInitiatorRef = FALSE,
                       !.isVideoCallRef = FALSE,
                       !.isRemoteDescriptionSetRef = FALSE,
                       !.iceCandidateQueueRef = <<>>,
                       !.callStatus = "idle",
                       !.callId = NoCallId,
                       !.otherUser = NoUser,
                       !.isScreenSharing = FALSE,
                       !.isVideoEnabled = TRUE,
                       !.isAudioEnabled = TRUE,
                       !.error = NoError]]
      IN  [onCallEnded(L4) EXCEPT !.timers = @ + 1]

\* endCall = () => endCallRef.current?.()
endCallStable(c, L) == endCallRef(c, L)

\* rejectCall: endCall -- the arguments of the call are not read.
rejectCallStable(c, L, incomingCallId, fromUserId) == endCallStable(c, L)

\* createPeerConnection(activeCallId): the new connection is the last of L.pcs.
createPeerConnectionStable(L, activeCallId) ==
    [L EXCEPT !.pcs = Append(@, NewPc(activeCallId))]

\* getUserMedia up to its await: the tracks of an existing stream are stopped.
getUserMediaStable(L, t) ==
    AddTask(StopTracks(L, L.hook.localStreamRef), t)

\* startCall / answerCall from `const stream = await getUserMedia(...)` on.
afterMediaStable(c, L, t, ok, event) ==
    LET L0 == [L EXCEPT !.tasks = @ \ {t}]
        s  == Len(L0.streams) + 1
        L1 == createPeerConnectionStable(getUserMediaResolved(L0, t.isVideoCall),
                                         t.callId)
        p  == Len(L1.pcs)
        L2 == [L1 EXCEPT !.hook.peerConnectionRef = p, !.pcs[p].tracks = s,
                         !.pcs[p].videoSender =
                             IF t.isVideoCall THEN s ELSE NoStream]
    IN  IF ok
        THEN Emit(L2, Msg(event, c, t.peer, t.callId, 0, t.isVideoCall))
        ELSE endCallStable(c, setError(L0, "Could not access camera/microphone"))

startCallStable(c, L, user, video, newCallId) ==
    LET L1 == [L EXCEPT !.hook = [@ EXCEPT
                   !.isInitiatorRef = TRUE,
                   !.callIdRef = newCallId,
                   !.otherUserIdRef = user,
                   !.isVideoCallRef = video,
                   !.callStatus = "calling",
                   !.callId = newCallId,
                   !.otherUser = user,
                   !.isVideoCall = video]]
    IN  getUserMediaStable(L1,
            Task("startCallStable:getUserMedia", NoPc, newCallId, user, video, <<>>))

answerCallStable(c, L, incomingCallId, fromUser, video) ==
    LET L1 == [L EXCEPT !.hook = [@ EXCEPT
                   !.isInitiatorRef = FALSE,
                   !.callIdRef = incomingCallId,
                   !.otherUserIdRef = fromUser,
                   !.isVideoCallRef = video,
                   !.callStatus = "ringing",
                   !.callId = incomingCallId,
                   !.otherUser = fromUser,
                   !.isVideoCall = video]]
    IN  getUserMediaStable(L1,
            Task("answerCallStable:getUserMedia", NoPc, incomingCallId, fromUser,
                 video, <<>>))

\* handleOffer from `const answer = await peerConnectionRef.current.createAnswer()`
offerAfterDrainStable(c, L, t) ==
    IF L.hook.peerConnectionRef = NoPc
    THEN setError(L, "Failed to negotiate call")
    ELSE AddTask(L, [t EXCEPT !.kind = "handleOfferStable:createAnswer",
                              !.pc = L.hook.peerConnectionRef, !.queue = <<>>])

afterDrainStable(c, L, t) ==
    IF t.kind = "handleOfferStable:addIceCandidate"
    THEN offerAfterDrainStable(c, L, t) ELSE L

\* processIceQueue resumed from an await of addIceCandidate, or entered when
\* t.queue is the whole queue.
drainStable(c, L, t) ==
    IF t.queue = <<>>
    THEN afterDrainStable(c, [L EXCEPT !.hook.iceCandidateQueueRef = <<>>], t)
    ELSE AddTask(addIceCandidate(L, t.pc, Head(t.queue)),
                 [t EXCEPT !.queue = Tail(@)])

processIceQueueStable(c, L, t) ==
    LET pc    == L.hook.peerConnectionRef
        queue == L.hook.iceCandidateQueueRef
    IN  IF pc = NoPc \/ queue = <<>>
        THEN afterDrainStable(c, L, t)
        ELSE drainStable(c, L, [t EXCEPT !.pc = pc, !.queue = queue])

handleCallAcceptedStable(c, L, m) ==
    IF L.hook.callIdRef = m.callId /\ L.hook.peerConnectionRef # NoPc
    THEN AddTask(L, Task("handleCallAcceptedStable:createOffer",
                         L.hook.peerConnectionRef, m.callId, m.from, FALSE, <<>>))
    ELSE L

\* after `await peerConnectionRef.current.createOffer(...)`
callAcceptedAfterCreateOfferStable(c, L, t, ok) ==
    LET L0 == [L EXCEPT !.tasks = @ \ {t}]
        p  == L0.hook.peerConnectionRef
    IN  IF ok /\ CanCreateOffer(L0.pcs[t.pc]) /\ p # NoPc
        THEN AddTask(L0, [t EXCEPT
                 !.kind = "handleCallAcceptedStable:setLocalDescription",
                 !.pc = p, !.src = t.pc])
        ELSE setError(L0, "Failed to negotiate call")

\* after `await peerConnectionRef.current.setLocalDescription(offer)`
callAcceptedAfterSetLocalStable(c, L, t, ok) ==
    LET L0 == [L EXCEPT !.tasks = @ \ {t}]
    IN  IF ok /\ t.src = t.pc /\ CanSetLocalOffer(L0.pcs[t.pc])
        THEN Emit([L0 EXCEPT !.pcs[t.pc].localDescription = TRUE,
                             !.pcs[t.pc].signalingState = "have-local-offer"],
                  Msg("webrtc-offer", c, t.peer, t.callId, 0, FALSE))
        ELSE setError(L0, "Failed to negotiate call")

handleOfferStable(c, L, m) ==
    IF L.hook.callIdRef = m.callId /\ L.hook.peerConnectionRef # NoPc
    THEN AddTask(L, Task("handleOfferStable:setRemoteDescription",
                         L.hook.peerConnectionRef, m.callId, m.from, FALSE, <<>>))
    ELSE L

\* after `await peerConnectionRef.current.setRemoteDescription(offer)`
offerAfterSetRemoteStable(c, L, t, ok) ==
    LET L0 == [L EXCEPT !.tasks = @ \ {t}]
    IN  IF ok /\ CanSetRemoteOffer(L0.pcs[t.pc])
        THEN LET L1 == [L0 EXCEPT !.pcs[t.pc].remoteDescription = TRUE,
                                  !.pcs[t.pc].signalingState = "have-remote-offer",
                                  !.hook.remoteStream = TRUE,
                                  !.hook.isRemoteDescriptionSetRef = TRUE]
             IN  processIceQueueStable(c, L1,
                     [t EXCEPT !.kind = "handleOfferStable:addIceCandidate"])
        ELSE setError(L0, "Failed to negotiate call")

offerDrainResumedStable(c, L, t) ==
    drainStable(c, [L EXCEPT !.tasks = @ \ {t}], t)

\* after `await peerConnectionRef.current.createAnswer()`
offerAfterCreateAnswerStable(c, L, t, ok) ==
    LET L0 == [L EXCEPT !.tasks = @ \ {t}]
        p  == L0.hook.peerConnectionRef
    IN  IF ok /\ CanCreateAnswer(L0.pcs[t.pc]) /\ p # NoPc
        THEN AddTask(L0, [t EXCEPT !.kind = "handleOfferStable:setLocalDescription",
                                   !.pc = p, !.src = t.pc])
        ELSE setError(L0, "Failed to negotiate call")

\* after `await peerConnectionRef.current.setLocalDescription(answer)`
offerAfterSetLocalStable(c, L, t, ok) ==
    LET L0 == [L EXCEPT !.tasks = @ \ {t}]
    IN  IF ok /\ t.src = t.pc /\ CanSetLocalAnswer(L0.pcs[t.pc])
        THEN Emit([L0 EXCEPT !.pcs[t.pc].localDescription = TRUE,
                             !.pcs[t.pc].signalingState = "stable"],
                  Msg("webrtc-answer", c, t.peer, t.callId, 0, FALSE))
        ELSE setError(L0, "Failed to negotiate call")

handleAnswerStable(c, L, m) ==
    IF L.hook.callIdRef = m.callId /\ L.hook.peerConnectionRef # NoPc
    THEN AddTask(L, Task("handleAnswerStable:setRemoteDescription",
                         L.hook.peerConnectionRef, m.callId, m.from, FALSE, <<>>))
    ELSE L

\* after `await peerConnectionRef.current.setRemoteDescription(answer)`
answerAfterSetRemoteStable(c, L, t, ok) ==
    LET L0 == [L EXCEPT !.tasks = @ \ {t}]
    IN  IF ok /\ CanSetRemoteAnswer(L0.pcs[t.pc])
        THEN LET L1 == [L0 EXCEPT !.pcs[t.pc].remoteDescription = TRUE,
                                  !.pcs[t.pc].signalingState = "stable",
                                  !.hook.remoteStream = TRUE,
                                  !.hook.isRemoteDescriptionSetRef = TRUE]
             IN  processIceQueueStable(c, L1,
                     [t EXCEPT !.kind = "handleAnswerStable:addIceCandidate"])
        ELSE L0

answerDrainResumedStable(c, L, t) ==
    drainStable(c, [L EXCEPT !.tasks = @ \ {t}], t)

handleIceCandidateStable(c, L, m) ==
    LET p == L.hook.peerConnectionRef
    IN  IF L.hook.callIdRef # m.callId \/ p = NoPc THEN L
        ELSE IF L.hook.isRemoteDescriptionSetRef
        THEN addIceCandidate(L, p, m.cand)
        ELSE [L EXCEPT !.hook.iceCandidateQueueRef = Append(@, m.cand)]

\* toggleVideo: a stream without a video track is reported.
toggleVideoStable(c, L) ==
    LET s == L.hook.localStreamRef
    IN  IF s = NoStream THEN L
        ELSE IF L.streams[s].hasVideo
        THEN [L EXCEPT !.streams[s].video = ~@,
                       !.hook.isVideoEnabled = ~L.streams[s].video]
        ELSE setError(L, "Video unavailable in audio-only call")

\* toggleAudio: every stream getUserMedia(video, true) returns has an audio track.
toggleAudioStable(c, L) ==
    LET s == L.hook.localStreamRef
    IN  IF s = NoStream THEN L
        ELSE [L EXCEPT !.streams[s].audio = ~@,
                       !.hook.isAudioEnabled = ~L.streams[s].audio]

\* toggleScreenShare's stop branch from `screenStreamRef.current?.getTracks()` on.
screenShareStoppedStable(L) ==
    [StopTracks(L, L.hook.screenStreamRef)
        EXCEPT !.hook.screenStreamRef = NoStream, !.hook.isScreenSharing = FALSE]

\* toggleScreenShare as created by a render in which isScreenSharing was `sharing`.
toggleScreenShareStable(c, L, sharing) ==
    LET p == L.hook.peerConnectionRef
        s == L.hook.localStreamRef
    IN  IF ~sharing
        THEN AddTask(L, Task("toggleScreenShareStable:getDisplayMedia",
                             NoPc, NoCallId, NoUser, FALSE, <<>>))
        ELSE IF /\ p # NoPc /\ L.pcs[p].videoSender # NoStream
                /\ s # NoStream /\ L.streams[s].hasVideo
        THEN AddTask(L, [Task("toggleScreenShareStable:replaceTrack(camera)",
                              p, NoCallId, NoUser, FALSE, <<>>) EXCEPT !.src = s])
        ELSE screenShareStoppedStable(L)

\* the start branch going on to share when there is no video sender.
screenShareAfterDisplayMediaStableSharing(c, L, t, ok) ==
    LET L0 == [L EXCEPT !.tasks = @ \ {t}]
        s  == Len(L0.streams) + 1
    IN  IF ~ok THEN [L0 EXCEPT !.hook.isScreenSharing = FALSE]
        ELSE [L0 EXCEPT !.streams = Append(@, [NewStream("screen", TRUE)
                                                 EXCEPT !.onended = TRUE]),
                        !.hook.screenStreamRef = s,
                        !.hook.isScreenSharing = TRUE]

\* the start branch after `await navigator.mediaDevices.getDisplayMedia(...)`:
\* without a video sender the capture is stopped and the error set.
screenShareAfterDisplayMediaStable(c, L, t, ok) ==
    LET L0 == [L EXCEPT !.tasks = @ \ {t}]
        s  == Len(L0.streams) + 1
        p  == L0.hook.peerConnectionRef
        L1 == [L0 EXCEPT !.streams = Append(@, [NewStream("screen", TRUE)
                                                  EXCEPT !.onended = TRUE]),
                         !.hook.screenStreamRef = s]
    IN  IF ~ok THEN [L0 EXCEPT !.hook.isScreenSharing = FALSE]
        ELSE IF p # NoPc /\ L1.pcs[p].videoSender # NoStream
        THEN AddTask(L1, [t EXCEPT
                 !.kind = "toggleScreenShareStable:replaceTrack(screen)",
                 !.pc = p, !.src = s])
        ELSE [StopTracks(setError(L1, "Cannot share screen in audio-only mode"), s)
                EXCEPT !.hook.screenStreamRef = NoStream]

\* the start branch after `await sender.replaceTrack(screenTrack)`
screenShareAfterReplaceStable(c, L, t, ok) ==
    LET L0 == [L EXCEPT !.tasks = @ \ {t}]
    IN  IF ok /\ ~L0.pcs[t.pc].closed
        THEN [L0 EXCEPT !.pcs[t.pc].videoSender = t.src,
                        !.hook.isScreenSharing = TRUE]
        ELSE [L0 EXCEPT !.hook.isScreenSharing = FALSE]

\* the stop branch after `await sender.replaceTrack(videoTrack)`
screenShareAfterRestoreStable(c, L, t, ok) ==
    LET L0 == [L EXCEPT !.tasks = @ \ {t}]
    IN  IF ok /\ ~L0.pcs[t.pc].closed
        THEN screenShareStoppedStable([L0 EXCEPT !.pcs[t.pc].videoSender = t.src])
        ELSE [L0 EXCEPT !.hook.isScreenSharing = FALSE]

\* handleCallEndedEvent, registered for call-ended and for call-rejected.
handleCallEndedEvent(c, L, m) == endCallRef(c, L)

\* pc.onconnectionstatechange, pc.connectionState having become `state`.
onconnectionstatechangeStable(c, L, p, state) ==
    LET L1 == [L EXCEPT !.pcs[p].connectionState = state]
        L2 == IF state = "failed" THEN setError(L1, "Connection failed") ELSE L1
    IN  CASE state = "connected" -> [L1 EXCEPT !.hook.callStatus = "connected"]
          [] state \in {"failed", "closed"} ->
               IF ~L2.hook.isEndingCallRef THEN endCallRef(c, L2) ELSE L2
          [] OTHER -> L1

\* CallProvider over the stable-ref hook.
handleAcceptCallStable(c, L) ==
    LET ic == L.provider.incomingCall
    IN  IF ic # NoCall
        THEN [answerCallStable(c, L, ic.callId, ic.from, ic.isVideoCall)
                EXCEPT !.provider = InitProvider]
        ELSE L

handleRejectCallStable(c, L) ==
    LET ic == L.provider.incomingCall
    IN  IF ic # NoCall
        THEN [rejectCallStable(c, L, ic.callId, ic.from)
                EXCEPT !.provider = InitProvider]
        ELSE L

\* ------------------------------------------------- useWebRTC, src/hooks variant
\* The hook of src/hooks/useWebRTC.ts keeps callId in React state only: its
\* callbacks read the callId of the render that created them.  Of the hook
\* record it uses the React state, peerConnectionRef, localStreamRef,
\* screenStreamRef, otherUserIdRef and isEndingCallRef; remoteStream stands for
\* remoteStreamRef.  A connection's callId field is the callId its handlers
\* closed over.
LegacyTask(kind, id, peer, video, captured) ==
    [kind |-> kind, pc |-> NoPc, src |-> NoPc, callId |-> id, peer |-> peer,
     isVideoCall |-> video, queue |-> <<>>, captured |-> captured]

\* How a capture request can settle: resolved (name "ok") or rejected with an
\* error of that name.  Whether an OverconstrainedError is a DOMException
\* depends on the browser; the other errors are DOMExceptions.
MediaOutcomes ==
    {[name |-> n, dom |-> TRUE] :
        n \in {"ok", "NotAllowedError", "NotFoundError", "NotReadableError",
               "OverconstrainedError", "AbortError"}}
    \cup {[name |-> "OverconstrainedError", dom |-> FALSE]}

\* getUserMedia's catch: the message for an error that is not retried.
getUserMediaErrorLegacy(o) ==
    IF ~o.dom THEN "Failed to access camera/microphone"
    ELSE CASE o.name = "NotAllowedError" ->
                "Camera/microphone permission denied. Please allow access in your browser settings."
           [] o.name = "NotFoundError" ->
                "No camera or microphone found. Please connect a device."
           [] o.name = "NotReadableError" ->
                "Camera/microphone is already in use by another application."
           [] OTHER -> "Media error"

\* endCall as created by a render in which callId was `callId`.
endCallLegacy(c, L, callId) ==
    IF L.hook.isEndingCallRef THEN L
    ELSE
      LET h  == L.hook
          L1 == IF h.otherUserIdRef # NoUser /\ callId # NoCallId
                THEN Emit(L, Msg("end-call", c, h.otherUserIdRef, callId, 0, FALSE))
                ELSE L
          L2 == StopTracks(StopTracks(L1, h.localStreamRef), h.screenStreamRef)
          L3 == ClosePc(L2, h.peerConnectionRef)
          L4 == [L3 EXCEPT
                   !.hook = [@ EXCEPT
                       !.isEndingCallRef = TRUE,
                       !.peerConnectionRef = NoPc,
                       !.localStreamRef = NoStream,
                       !.localStream = NoStream,
                       !.remoteStream = FALSE,
                       !.screenStreamRef = NoStream,
                       !.otherUserIdRef = NoUser,
                       !.callStatus = "idle",
                       !.callId = NoCallId,
                       !.otherUser = NoUser,
                       !.isScreenSharing = FALSE,
                       !.isVideoEnabled = TRUE,
                       !.isAudioEnabled = TRUE,
                       !.error = NoError],
                   !.timers = @ + 1]
      IN  onCallEnded(L4)

rejectCallLegacy(c, L, incomingCallId, fromUserId) ==
    LET L1 == Emit(L, Msg("reject-call", c, fromUserId, incomingCallId, 0, FALSE))
    IN  [L1 EXCEPT !.hook.callStatus = "idle",
                   !.hook.callId = NoCallId,
                   !.hook.otherUser = NoUser,
                   !.hook.error = NoError]

\* startCall up to `await navigator.mediaDevices.getUserMedia(...)`; the
\* createPeerConnection it will call is the one of the render it was created in.
startCallLegacy(c, L, user, video, newCallId) ==
    LET L1 == [L EXCEPT !.hook = [@ EXCEPT
                   !.error = NoError,
                   !.isEndingCallRef = FALSE,
                   !.callId = newCallId,
                   !.isVideoCall = video,
                   !.otherUser = user,
                   !.callStatus = "calling",
                   !.otherUserIdRef = user]]
    IN  AddTask(L1, LegacyTask("startCallLegacy:getUserMedia", newCallId, user,
                               video, L.hook.callId))

answerCallLegacy(c, L, incomingCallId, fromUserId, video) ==
    LET L1 == [L EXCEPT !.hook = [@ EXCEPT
                   !.error = NoError,
                   !.isEndingCallRef = FALSE,
                   !.callId = incomingCallId,
                   !.isVideoCall = video,
                   !.callStatus = "connected",
                   !.otherUserIdRef = fromUserId]]
    IN  AddTask(L1, LegacyTask("answerCallLegacy:getUserMedia", incomingCallId,
                               fromUserId, video, L.hook.callId))

StartKinds == {"startCallLegacy:getUserMedia", "startCallLegacy:getUserMedia(retry)"}

RetryKinds == {"startCallLegacy:getUserMedia(retry)",
               "answerCallLegacy:getUserMedia(retry)"}

\* startCall / answerCall from `const stream = await getUserMedia(...)` on.
afterMediaLegacy(c, L, t) ==
    LET s  == Len(L.streams) + 1
        L1 == [L EXCEPT !.streams = Append(@, NewStream("camera", t.isVideoCall)),
                        !.hook.localStreamRef = s,
                        !.hook.localStream = s,
                        !.pcs = Append(@, NewPc(t.captured))]
        p  == Len(L1.pcs)
        L2 == [L1 EXCEPT !.hook.peerConnectionRef = p, !.pcs[p].tracks = s,
                         !.pcs[p].videoSender =
                             IF t.isVideoCall THEN s ELSE NoStream]
    IN  Emit(L2, Msg(IF t.kind \in StartKinds THEN "initiate-call" ELSE "accept-call",
                     c, t.peer, t.callId, 0, t.isVideoCall))

\* startCall's and answerCall's catch, getUserMedia having set `message`.
mediaFailedLegacy(c, L, t, message) ==
    LET L1 == setError(L, message)
    IN  IF t.kind \in StartKinds
        THEN [L1 EXCEPT !.hook.callStatus = "idle",
                        !.hook.callId = NoCallId,
                        !.hook.otherUser = NoUser]
        ELSE rejectCallLegacy(c, L1, t.callId, t.peer)

\* getUserMedia resumed from a capture request that settled as o: the first
\* request is repeated with plain constraints if it failed with a DOMException
\* named OverconstrainedError.
getUserMediaSettledLegacy(c, L, t, o) ==
    LET L0 == [L EXCEPT !.tasks = @ \ {t}]
    IN  IF o.name = "ok" THEN afterMediaLegacy(c, L0, t)
        ELSE IF t.kind \in RetryKinds
        THEN mediaFailedLegacy(c, L0, t, "Failed to access camera with any settings.")
        ELSE IF o.dom /\ o.name = "OverconstrainedError"
        THEN AddTask(L0, [t EXCEPT !.kind =
                IF t.kind \in StartKinds THEN "startCallLegacy:getUserMedia(retry)"
                ELSE "answerCallLegacy:getUserMedia(retry)"])
        ELSE mediaFailedLegacy(c, L0, t, getUserMediaErrorLegacy(o))

\* socket.on("call-accepted")
handleCallAcceptedLegacy(c, L, m) ==
    IF L.hook.callId = m.callId /\ L.hook.peerConnectionRef # NoPc
    THEN AddTask(L, [LegacyTask("callAcceptedLegacy:createOffer", m.callId, m.from,
                                FALSE, NoCallId)
                        EXCEPT !.pc = L.hook.peerConnectionRef])
    ELSE L

\* socket.on("webrtc-offer")
handleOfferLegacy(c, L, m) ==
    IF L.hook.peerConnectionRef # NoPc /\ L.hook.callId = m.callId
    THEN AddTask(L, [LegacyTask("offerLegacy:setRemoteDescription", m.callId, m.from,
                                FALSE, NoCallId)
                        EXCEPT !.pc = L.hook.peerConnectionRef])
    ELSE L

\* socket.on("webrtc-answer")
handleAnswerLegacy(c, L, m) ==
    IF L.hook.peerConnectionRef # NoPc /\ L.hook.callId = m.callId
    THEN AddTask(L, [LegacyTask("answerLegacy:setRemoteDescription", m.callId, m.from,
                                FALSE, NoCallId)
                        EXCEPT !.pc = L.hook.peerConnectionRef])
    ELSE L

\* socket.on("webrtc-ice-candidate"): the candidate goes to the connection at
\* once; a rejection is logged.
handleIceCandidateLegacy(c, L, m) ==
    IF L.hook.peerConnectionRef # NoPc /\ L.hook.callId = m.callId
    THEN addIceCandidate(L, L.hook.peerConnectionRef, m.cand)
    ELSE L

\* A negotiation handler resumed from an await on connection t.pc; the next
\* operation is invoked on peerConnectionRef.current.  pc.ontrack, fired as a
\* remote description is applied, stores the stream and sets callStatus.
negotiationResumedLegacy(c, L, t, ok) ==
    LET L0   == [L EXCEPT !.tasks = @ \ {t}]
        p    == L0.hook.peerConnectionRef
        pc   == L0.pcs[t.pc]
        fail == setError(L0, "Failed to establish connection")
        next(L1, kind) ==
            IF p = NoPc THEN setError(L1, "Failed to establish connection")
            ELSE AddTask(L1, [t EXCEPT !.kind = kind, !.pc = p, !.src = t.pc])
        remote(state) == [L0 EXCEPT !.pcs[t.pc].remoteDescription = TRUE,
                                    !.pcs[t.pc].signalingState = state,
                                    !.hook.remoteStream = TRUE,
                                    !.hook.callStatus = "connected"]
        local(state, type) ==
            Emit([L0 EXCEPT !.pcs[t.pc].localDescription = TRUE,
                            !.pcs[t.pc].signalingState = state],
                 Msg(type, c, t.peer, t.callId, 0, FALSE))
    IN  CASE t.kind = "callAcceptedLegacy:createOffer" ->
               IF ok /\ CanCreateOffer(pc)
               THEN next(L0, "callAcceptedLegacy:setLocalDescription") ELSE fail
          [] t.kind = "callAcceptedLegacy:setLocalDescription" ->
               IF ok /\ t.src = t.pc /\ CanSetLocalOffer(pc)
               THEN local("have-local-offer", "webrtc-offer") ELSE fail
          [] t.kind = "offerLegacy:setRemoteDescription" ->
               IF ok /\ CanSetRemoteOffer(pc)
               THEN next(remote("have-remote-offer"), "offerLegacy:createAnswer")
               ELSE fail
          [] t.kind = "offerLegacy:createAnswer" ->
               IF ok /\ CanCreateAnswer(pc)
               THEN next(L0, "offerLegacy:setLocalDescription") ELSE fail
          [] t.kind = "offerLegacy:setLocalDescription" ->
               IF ok /\ t.src = t.pc /\ CanSetLocalAnswer(pc)
               THEN local("stable", "webrtc-answer") ELSE fail
          [] t.kind = "answerLegacy:setRemoteDescription" ->
               IF ok /\ CanSetRemoteAnswer(pc) THEN remote("stable") ELSE fail

\* pc.onicecandidate with a candidate: the n-th local candidate of connection
\* p, whose handler reads the callId of the render createPeerConnection was
\* created in.
onicecandidateLegacy(c, L, p) ==
    LET n  == L.pcs[p].gathered + 1
        L1 == [L EXCEPT !.pcs[p].gathered = n]
    IN  IF L.hook.otherUserIdRef # NoUser /\ L.pcs[p].callId # NoCallId
        THEN Emit(L1, Msg("webrtc-ice-candidate", c, L.hook.otherUserIdRef,
                          L.pcs[p].callId, n, FALSE))
        ELSE L1

\* pc.onconnectionstatechange; its endCall is the one of the same render.
onconnectionstatechangeLegacy(c, L, p, state) ==
    LET L1 == [L EXCEPT !.pcs[p].connectionState = state]
    IN  CASE state = "connected" ->
               [L1 EXCEPT !.hook.callStatus = "connected", !.hook.error = NoError]
          [] state = "failed" ->
               setError(L1, "Connection failed. Please check your network.")
          [] state = "closed" ->
               IF ~L1.hook.isEndingCallRef
               THEN endCallLegacy(c, L1, L1.pcs[p].callId) ELSE L1
          [] OTHER -> L1

\* CallProvider (src/components/CallProvider.tsx) over this hook.
handleAcceptCallLegacy(c, L) ==
    LET ic == L.provider.incomingCall
    IN  IF ic # NoCall
        THEN [answerCallLegacy(c, L, ic.callId, ic.from, ic.isVideoCall)
                EXCEPT !.provider = InitProvider]
        ELSE L

handleRejectCallLegacy(c, L) ==
    LET ic == L.provider.incomingCall
    IN  IF ic # NoCall
        THEN [rejectCallLegacy(c, L, ic.callId, ic.from)
                EXCEPT !.provider = InitProvider]
        ELSE L

\* socket.on("call-rejected") and socket.on("call-ended"): the handlers are
\* registered anew whenever callId changes, so their endCall reads the present
\* callId.
handleCallRejectedLegacy(c, L, m) ==
    endCallLegacy(c, setError(L, "Call was rejected"), L.hook.callId)

handleCallEndedLegacy(c, L, m) == endCallLegacy(c, L, L.hook.callId)

\* ------------------------------------------------- steps
\* The running handler returns: its state is stored and its emits are on the wire.
Commit(c, L) ==
    LET msgs == SeqToBag([i \in 1..Len(Emitted(L)) |-> Emitted(L)[i].msg])
    IN  /\ hook' = [hook EXCEPT ![c] = L.hook]
        /\ provider' = [provider EXCEPT ![c] = L.provider]
        /\ pcs' = [pcs EXCEPT ![c] = L.pcs]
        /\ streams' = [streams EXCEPT ![c] = L.streams]
        /\ tasks' = [tasks EXCEPT ![c] = L.tasks]
        /\ timers' = [timers EXCEPT ![c] = L.timers]
        /\ toRelay' = toRelay (+) msgs

\* The call buttons are reachable while neither the call screen (callStatus not
\* idle) nor the incoming-call modal covers the page.
UserStartCall(c, user, video) ==
    /\ hook[c].callStatus = "idle"
    /\ provider[c].incomingCall = NoCall
    /\ Commit(c, startCall(c, Local(c), user, video, nextCallId))
    /\ calls' = Append(calls, NewCall(c, user, FALSE))
    /\ UNCHANGED relayVars

\* IncomingCallModal is rendered while incomingCall && callStatus === "idle".
UserAcceptCall(c) ==
    /\ provider[c].incomingCall # NoCall
    /\ hook[c].callStatus = "idle"
    /\ Commit(c, handleAcceptCall(c, Local(c)))
    /\ UNCHANGED <<relayVars, calls>>

UserRejectCall(c) ==
    /\ provider[c].incomingCall # NoCall
    /\ hook[c].callStatus = "idle"
    /\ Commit(c, handleRejectCall(c, Local(c)))
    /\ UNCHANGED <<relayVars, calls>>

\* VideoCallUI (onEndCall) is rendered while callStatus !== "idle" && otherUser.
UserEndCall(c) ==
    /\ hook[c].callStatus # "idle"
    /\ hook[c].otherUser # NoUser
    /\ Commit(c, endCall(c, Local(c)))
    /\ UNCHANGED <<relayVars, calls>>

\* The controls of VideoCallUI: onToggleVideo, onToggleAudio, onToggleScreenShare.
UserToggleVideo(c) ==
    /\ hook[c].callStatus # "idle"
    /\ hook[c].otherUser # NoUser
    /\ Commit(c, toggleVideo(c, Local(c)))
    /\ UNCHANGED <<relayVars, calls>>

UserToggleAudio(c) ==
    /\ hook[c].callStatus # "idle"
    /\ hook[c].otherUser # NoUser
    /\ Commit(c, toggleAudio(c, Local(c)))
    /\ UNCHANGED <<relayVars, calls>>

\* The screen streams c has captured and the capture requests it has pending.
Shares(c) ==
    Cardinality({i \in 1..Len(streams[c]) : streams[c][i].kind = "screen"})
    + Cardinality({t \in tasks[c] :
                     t.kind \in {"toggleScreenShare:getDisplayMedia",
                                 "toggleScreenShare:getDisplayMedia(onended)"}})

\* The picker of getDisplayMedia is modal: no second click while it is open.
UserToggleScreenShare(c) ==
    /\ hook[c].callStatus # "idle"
    /\ hook[c].otherUser # NoUser
    /\ \A t \in tasks[c] : t.kind # "toggleScreenShare:getDisplayMedia"
    /\ hook[c].isScreenSharing \/ Shares(c) < MaxShares
    /\ Commit(c, toggleScreenShare(c, Local(c), hook[c].isScreenSharing))
    /\ UNCHANGED <<relayVars, calls>>

\* The user stops the capture from the browser's own control: the track of
\* screen stream s ends and its onended, if set, runs.
ScreenTrackEnded(c, s) ==
    /\ s \in 1..Len(streams[c])
    /\ streams[c][s].kind = "screen" /\ streams[c][s].live
    /\ Shares(c) <= MaxShares
    /\ LET L == [Local(c) EXCEPT !.streams[s].live = FALSE]
       IN  Commit(c, IF streams[c][s].onended THEN onended(c, L, s) ELSE L)
    /\ UNCHANGED <<relayVars, calls>>

\* endCall's setTimeout(() => { isEndingCallRef.current = false }, 500)
TimerFire(c) ==
    /\ timers[c] > 0
    /\ Commit(c, [Local(c) EXCEPT !.hook.isEndingCallRef = FALSE, !.timers = @ - 1])
    /\ UNCHANGED <<relayVars, calls>>

\* A suspended handler resumes: its promise resolved (ok) or rejected.
Resumed(c, L, t, ok) ==
    CASE t.kind = "startCall:getUserMedia" -> startCallResumed(c, L, t, ok)
      [] t.kind = "answerCall:getUserMedia" -> answerCallResumed(c, L, t, ok)
      [] t.kind = "handleCallAccepted:createOffer" -> callAcceptedAfterCreateOffer(c, L, t, ok)
      [] t.kind = "handleCallAccepted:setLocalDescription" -> callAcceptedAfterSetLocal(c, L, t, ok)
      [] t.kind = "handleOffer:setRemoteDescription" -> offerAfterSetRemote(c, L, t, ok)
      [] t.kind = "handleOffer:addIceCandidate" -> offerDrainResumed(c, L, t)
      [] t.kind = "handleOffer:createAnswer" -> offerAfterCreateAnswer(c, L, t, ok)
      [] t.kind = "handleOffer:setLocalDescription" -> offerAfterSetLocal(c, L, t, ok)
      [] t.kind = "handleAnswer:setRemoteDescription" -> answerAfterSetRemote(c, L, t, ok)
      [] t.kind = "handleAnswer:addIceCandidate" -> answerDrainResumed(c, L, t)
      [] t.kind = "toggleScreenShare:getDisplayMedia" ->
             screenShareAfterDisplayMedia(c, L, t, ok)
      [] t.kind = "toggleScreenShare:getDisplayMedia(onended)" ->
             screenShareAfterDisplayMedia(c, L, t, ok)
      [] t.kind = "toggleScreenShare:replaceTrack(screen)" ->
             screenShareAfterReplace(c, L, t, ok)
      [] t.kind = "toggleScreenShare:replaceTrack(camera)" ->
             screenShareAfterRestore(c, L, t, ok)
      [] t.kind = "toggleScreenShareStable:getDisplayMedia" ->
             screenShareAfterDisplayMediaStable(c, L, t, ok)
      [] t.kind = "toggleScreenShareStable:replaceTrack(screen)" ->
             screenShareAfterReplaceStable(c, L, t, ok)
      [] t.kind = "toggleScreenShareStable:replaceTrack(camera)" ->
             screenShareAfterRestoreStable(c, L, t, ok)
      [] t.kind \in {"callAcceptedLegacy:createOffer",
                     "callAcceptedLegacy:setLocalDescription",
                     "offerLegacy:setRemoteDescription", "offerLegacy:createAnswer",
                     "offerLegacy:setLocalDescription",
                     "answerLegacy:setRemoteDescription"} ->
             negotiationResumedLegacy(c, L, t, ok)
      [] t.kind = "startCallStable:getUserMedia" ->
             afterMediaStable(c, L, t, ok, "initiate-call")
      [] t.kind = "answerCallStable:getUserMedia" ->
             afterMediaStable(c, L, t, ok, "accept-call")
      [] t.kind = "handleCallAcceptedStable:createOffer" ->
             callAcceptedAfterCreateOfferStable(c, L, t, ok)
      [] t.kind = "handleCallAcceptedStable:setLocalDescription" ->
             callAcceptedAfterSetLocalStable(c, L, t, ok)
      [] t.kind = "handleOfferStable:setRemoteDescription" ->
             offerAfterSetRemoteStable(c, L, t, ok)
      [] t.kind = "handleOfferStable:addIceCandidate" ->
             offerDrainResumedStable(c, L, t)
      [] t.kind = "handleOfferStable:createAnswer" ->
             offerAfterCreateAnswerStable(c, L, t, ok)
      [] t.kind = "handleOfferStable:setLocalDescription" ->
             offerAfterSetLocalStable(c, L, t, ok)
      [] t.kind = "handleAnswerStable:setRemoteDescription" ->
             answerAfterSetRemoteStable(c, L, t, ok)
      [] t.kind = "handleAnswerStable:addIceCandidate" ->
             answerDrainResumedStable(c, L, t)

Resolve(c, t, ok) ==
    /\ t \in tasks[c]
    /\ Commit(c, Resumed(c, Local(c), t, ok))
    /\ UNCHANGED <<relayVars, calls>>

IceCandidateEvent(c, p) ==
    /\ p \in 1..Len(pcs[c])
    /\ ~pcs[c][p].closed
    /\ pcs[c][p].localDescription
    /\ pcs[c][p].gathered < MaxCands
    /\ Commit(c, onicecandidate(c, Local(c), p))
    /\ UNCHANGED <<relayVars, calls>>

ConnectionStateEvent(c, p, state) ==
    /\ p \in 1..Len(pcs[c])
    /\ state \in NextConnectionStates(pcs[c][p])
    /\ Commit(c, onconnectionstatechange(c, Local(c), p, state))
    /\ UNCHANGED <<relayVars, calls>>

\* socket.on(event, handler): the handler registered for m.type runs on m.
Handled(c, L, m) ==
    CASE m.type = "call-initiated" -> handleCallInitiated(c, L, m)
      [] m.type = "call-accepted" -> handleCallAccepted(c, L, m)
      [] m.type = "webrtc-offer" -> handleOffer(c, L, m)
      [] m.type = "webrtc-answer" -> handleAnswer(c, L, m)
      [] m.type = "webrtc-ice-candidate" -> handleIceCandidate(c, L, m)
      [] m.type = "call-rejected" -> handleCallRejected(c, L, m)
      [] m.type = "call-ended" -> handleCallEnded(c, L, m)

\* An event that had an effect is marked on the connection it was handled for.
Receive(c, m) ==
    LET L == Handled(c, Local(c), m)
        p == L.hook.peerConnectionRef
    IN  Commit(c, IF L # Local(c) /\ p # NoPc /\ m.callId = L.hook.callIdRef
                  THEN [L EXCEPT !.pcs[p].seen = @ \cup {m.type}]
                  ELSE L)

\* A socket as the relay sees it: `socket.handshake.auth.userId`, and whether
\* its disconnect has fired.
Socket(u) == [userId |-> u, connected |-> TRUE]

\* One socket per user, in the order the users connected.
SocketOf(u) == CASE u = "A" -> 1 [] u = "B" -> 2 [] u = "C" -> 3

\* `const targetSocketId = onlineUsers.get(userId); if (targetSocketId)`
Registered(u) == onlineUsers[u] # NoSocket

Init ==
    /\ hook = [c \in Users |-> InitHook]
    /\ provider = [c \in Users |-> InitProvider]
    /\ pcs = [c \in Users |-> <<>>]
    /\ streams = [c \in Users |-> <<>>]
    /\ tasks = [c \in Users |-> {}]
    /\ timers = [c \in Users |-> 0]
    /\ toRelay = EmptyBag
    /\ toClient = EmptyBag
    /\ onlineUsers = [u \in Users |-> SocketOf(u)]
    /\ sockets = <<Socket("A"), Socket("B"), Socket("C")>>
    /\ emits = {}
    /\ relayLog = EmptyBag
    /\ calls = <<>>

\* ------------------------------------------------- one client, any peers
\* Spec and SpecIce: client Me runs the code; the relay and the other users are
\* its environment, which takes what Me emits at once and delivers to Me, in
\* any order, what peers can have sent:
\*   call-initiated   for a fresh call id;
\*   for Me's current call (callIdRef), whichever connection Me holds, each at
\*   most once:
\*     call-accepted  if Me started the call and the peer knows of it;
\*     webrtc-offer   if the peer started it (Me's accept-call is out);
\*     webrtc-answer  if Me's webrtc-offer is out;
\*     webrtc-ice-candidate   (SpecIce) once the peer has a local description:
\*                    as the caller after Me's accept-call, else after Me's offer;
\*   the same events for any other call a peer knows of (stale events), any
\*   number of times;
\*   call-ended, call-rejected   for any call a peer knows of.
Me == "A"

\* Whom Me calls, and who calls Me.
Callees == {"B"}

Callers == {"B", "C"}

PeerOf(c, k) == IF calls[k].from = c THEN calls[k].to ELSE calls[k].from

From(c, k, type, cand) == Msg(type, PeerOf(c, k), c, k, cand, FALSE)

SessionEvents == {"call-accepted", "webrtc-offer", "webrtc-answer"}

KnownCalls == {k \in 1..Len(calls) : calls[k].known}

\* c's current call, if the peer knows of it.
CurrentCalls(c) ==
    LET k == hook[c].callIdRef
    IN  IF k = NoCallId THEN {} ELSE IF calls[k].known THEN {k} ELSE {}

\* What the peer of c's current call can send next: each session event once,
\* whichever connection c has by now.
SessionMsgs(c) ==
    IF CurrentCalls(c) = {} THEN {}
    ELSE LET k    == hook[c].callIdRef
             byMe == calls[k].from = c
             due  == (IF byMe THEN {"call-accepted"} ELSE {})
                     \cup (IF ~byMe /\ "accept-call" \in calls[k].out
                           THEN {"webrtc-offer"} ELSE {})
                     \cup (IF byMe /\ "webrtc-offer" \in calls[k].out
                           THEN {"webrtc-answer"} ELSE {})
         IN  {From(c, k, type, 0) : type \in due \ calls[k].got}

\* The peer has a local description, so candidates to send, once it has made
\* its offer (c's accept-call reached it) or its answer (c's offer reached it).
PeerGathers(c, k) ==
    IF calls[k].from = c THEN "webrtc-offer" \in calls[k].out
    ELSE "accept-call" \in calls[k].out

IceMsgs(c) ==
    IF CurrentCalls(c) = {} THEN {}
    ELSE LET k == hook[c].callIdRef
         IN  IF ~PeerGathers(c, k) THEN {}
             ELSE {From(c, k, "webrtc-ice-candidate", n) :
                     n \in (1..MaxCands) \ calls[k].cands}

StaleMsgs(c) ==
    {From(c, k, type, 0) :
        k \in KnownCalls \ {hook[c].callIdRef}, type \in SessionEvents}

StaleIceMsgs(c) ==
    {From(c, k, "webrtc-ice-candidate", n) :
        k \in KnownCalls \ {hook[c].callIdRef}, n \in 1..MaxCands}

EndMsgs(c) ==
    {From(c, k, "call-ended", 0) : k \in KnownCalls}
    \cup {From(c, k, "call-rejected", 0) :
            k \in {i \in KnownCalls : calls[i].from = c}}

NewCallMsgs(c) ==
    {Msg("call-initiated", u, c, nextCallId, 0, v) : u \in Callers, v \in VideoModes}

EnvMsgs(c) == SessionMsgs(c) \cup StaleMsgs(c) \cup EndMsgs(c)

\* The books after the peer's event m for c's current call was delivered.
Delivered(c, m) ==
    IF m.callId # hook[c].callIdRef THEN calls
    ELSE IF m.type \in SessionEvents
    THEN [calls EXCEPT ![m.callId].got = @ \cup {m.type}]
    ELSE IF m.type = "webrtc-ice-candidate"
    THEN [calls EXCEPT ![m.callId].cands = @ \cup {m.cand}]
    ELSE calls

EnvDeliver(c, m) ==
    /\ Receive(c, m)
    /\ calls' = IF m.type = "call-initiated"
                THEN Append(calls, NewCall(m.from, c, TRUE))
                ELSE Delivered(c, m)
    /\ UNCHANGED relayVars

\* The environment takes an event Me emitted; an initiate-call tells the peer
\* of the call.
EnvTake(m) ==
    /\ BagIn(m, toRelay)
    /\ toRelay' = toRelay (-) SetToBag({m})
    /\ calls' = CASE m.type = "initiate-call" ->
                       [calls EXCEPT ![m.callId].known = TRUE]
                  [] m.type \in {"accept-call", "webrtc-offer"} ->
                       [calls EXCEPT ![m.callId].out = @ \cup {m.type}]
                  [] OTHER -> calls
    /\ UNCHANGED <<hook, provider, pcs, streams, tasks, timers, relayVars>>

\* The environment is quicker than anything Me does next.
Taken == toRelay = EmptyBag

Next ==
    \/ \E m \in BagToSet(toRelay) : EnvTake(m)
    \/ \E u \in Callees, v \in VideoModes :
          Taken /\ Len(calls) < MaxCalls /\ UserStartCall(Me, u, v)
    \/ Taken /\ UserAcceptCall(Me)
    \/ Taken /\ UserRejectCall(Me)
    \/ Taken /\ UserEndCall(Me)
    \/ Taken /\ TimerFire(Me)
    \/ \E t \in tasks[Me], ok \in BOOLEAN : Taken /\ Resolve(Me, t, ok)
    \/ \E p \in 1..Len(pcs[Me]), s \in {"connected", "disconnected", "failed"} :
          Taken /\ ConnectionStateEvent(Me, p, s)
    \/ \E m \in NewCallMsgs(Me) : Taken /\ Len(calls) < MaxCalls /\ EnvDeliver(Me, m)
    \/ \E m \in EnvMsgs(Me) : Taken /\ EnvDeliver(Me, m)

Spec == Init /\ [][Next]_vars

NextIce ==
    \/ \E m \in BagToSet(toRelay) : EnvTake(m)
    \/ \E u \in Callees, v \in VideoModes :
          Taken /\ Len(calls) < MaxIceCalls /\ UserStartCall(Me, u, v)
    \/ Taken /\ UserAcceptCall(Me)
    \/ Taken /\ UserRejectCall(Me)
    \/ Taken /\ UserEndCall(Me)
    \/ Taken /\ TimerFire(Me)
    \/ \E t \in tasks[Me], ok \in BOOLEAN : Taken /\ Resolve(Me, t, ok)
    \/ \E p \in 1..Len(pcs[Me]), s \in {"connected", "disconnected", "failed"} :
          Taken /\ ConnectionStateEvent(Me, p, s)
    \/ \E m \in NewCallMsgs(Me) : Taken /\ Len(calls) < MaxIceCalls /\ EnvDeliver(Me, m)
    \/ \E m \in EnvMsgs(Me) : Taken /\ EnvDeliver(Me, m)
    \/ \E m \in IceMsgs(Me) \cup StaleIceMsgs(Me) : Taken /\ EnvDeliver(Me, m)

SpecIce == Init /\ [][NextIce]_vars

\* SpecIceFaulty: SpecIce with a peer that also sends malformed candidates.
BadIceMsgs(c) ==
    IF CurrentCalls(c) = {} THEN {}
    ELSE LET k == hook[c].callIdRef
         IN  IF ~PeerGathers(c, k) THEN {}
             ELSE {From(c, k, "webrtc-ice-candidate", -n) :
                     n \in (1..MaxBadCands) \ {-x : x \in calls[k].cands}}

NextIceFaulty ==
    \/ NextIce
    \/ \E m \in BadIceMsgs(Me) : Taken /\ EnvDeliver(Me, m)

SpecIceFaulty == Init /\ [][NextIceFaulty]_vars

\* SpecMedia: Spec with the user at the controls of the call screen.
NextMedia ==
    \/ \E m \in BagToSet(toRelay) : EnvTake(m)
    \/ \E u \in Callees, v \in BOOLEAN :
          Taken /\ Len(calls) < MaxMediaCalls /\ UserStartCall(Me, u, v)
    \/ Taken /\ UserAcceptCall(Me)
    \/ Taken /\ UserRejectCall(Me)
    \/ Taken /\ UserEndCall(Me)
    \/ Taken /\ UserToggleVideo(Me)
    \/ Taken /\ UserToggleAudio(Me)
    \/ Taken /\ UserToggleScreenShare(Me)
    \/ \E s \in 1..Len(streams[Me]) : Taken /\ ScreenTrackEnded(Me, s)
    \/ Taken /\ TimerFire(Me)
    \/ \E t \in tasks[Me], ok \in BOOLEAN : Taken /\ Resolve(Me, t, ok)
    \/ \E p \in 1..Len(pcs[Me]), s \in {"connected", "disconnected", "failed"} :
          Taken /\ ConnectionStateEvent(Me, p, s)
    \/ \E m \in NewCallMsgs(Me) :
          Taken /\ Len(calls) < MaxMediaCalls /\ EnvDeliver(Me, m)
    \/ \E m \in EnvMsgs(Me) : Taken /\ EnvDeliver(Me, m)

SpecMedia == Init /\ [][NextMedia]_vars

\* ------------------------------------------------- the stable-ref hook, any peers
\* SpecStable: client Me runs CallProvider over the stable-ref hook in the
\* environment of Spec.
UserStartCallStable(c, user, video) ==
    /\ hook[c].callStatus = "idle"
    /\ provider[c].incomingCall = NoCall
    /\ Commit(c, startCallStable(c, Local(c), user, video, nextCallId))
    /\ calls' = Append(calls, NewCall(c, user, FALSE))
    /\ UNCHANGED relayVars

UserAcceptCallStable(c) ==
    /\ provider[c].incomingCall # NoCall
    /\ hook[c].callStatus = "idle"
    /\ Commit(c, handleAcceptCallStable(c, Local(c)))
    /\ UNCHANGED <<relayVars, calls>>

UserRejectCallStable(c) ==
    /\ provider[c].incomingCall # NoCall
    /\ hook[c].callStatus = "idle"
    /\ Commit(c, handleRejectCallStable(c, Local(c)))
    /\ UNCHANGED <<relayVars, calls>>

UserEndCallStable(c) ==
    /\ hook[c].callStatus # "idle"
    /\ hook[c].otherUser # NoUser
    /\ Commit(c, endCallStable(c, Local(c)))
    /\ UNCHANGED <<relayVars, calls>>

UserToggleVideoStable(c) ==
    /\ hook[c].callStatus # "idle"
    /\ hook[c].otherUser # NoUser
    /\ Commit(c, toggleVideoStable(c, Local(c)))
    /\ UNCHANGED <<relayVars, calls>>

UserToggleAudioStable(c) ==
    /\ hook[c].callStatus # "idle"
    /\ hook[c].otherUser # NoUser
    /\ Commit(c, toggleAudioStable(c, Local(c)))
    /\ UNCHANGED <<relayVars, calls>>

\* The screen streams c has captured and the pickers it has open.
SharesStable(c) ==
    Cardinality({i \in 1..Len(streams[c]) : streams[c][i].kind = "screen"})
    + Cardinality({t \in tasks[c] :
                     t.kind = "toggleScreenShareStable:getDisplayMedia"})

UserToggleScreenShareStable(c) ==
    /\ hook[c].callStatus # "idle"
    /\ hook[c].otherUser # NoUser
    /\ \A t \in tasks[c] : t.kind # "toggleScreenShareStable:getDisplayMedia"
    /\ hook[c].isScreenSharing \/ SharesStable(c) < MaxStableShares
    /\ Commit(c, toggleScreenShareStable(c, Local(c), hook[c].isScreenSharing))
    /\ UNCHANGED <<relayVars, calls>>

ConnectionStateEventStable(c, p, state) ==
    /\ p \in 1..Len(pcs[c])
    /\ state \in NextConnectionStates(pcs[c][p])
    /\ Commit(c, onconnectionstatechangeStable(c, Local(c), p, state))
    /\ UNCHANGED <<relayVars, calls>>

\* socket.on(event, handler) of the stable-ref hook and of CallProvider.
HandledStable(c, L, m) ==
    CASE m.type = "call-initiated" -> handleCallInitiated(c, L, m)
      [] m.type = "call-accepted" -> handleCallAcceptedStable(c, L, m)
      [] m.type = "webrtc-offer" -> handleOfferStable(c, L, m)
      [] m.type = "webrtc-answer" -> handleAnswerStable(c, L, m)
      [] m.type = "webrtc-ice-candidate" -> handleIceCandidateStable(c, L, m)
      [] m.type = "call-rejected" -> handleCallEndedEvent(c, L, m)
      [] m.type = "call-ended" -> handleCallEndedEvent(c, L, m)

ReceiveStable(c, m) ==
    LET L == HandledStable(c, Local(c), m)
        p == L.hook.peerConnectionRef
    IN  Commit(c, IF L # Local(c) /\ p # NoPc /\ m.callId = L.hook.callIdRef
                  THEN [L EXCEPT !.pcs[p].seen = @ \cup {m.type}]
                  ELSE L)

EnvDeliverStable(c, m) ==
    /\ ReceiveStable(c, m)
    /\ calls' = IF m.type = "call-initiated"
                THEN Append(calls, NewCall(m.from, c, TRUE))
                ELSE Delivered(c, m)
    /\ UNCHANGED relayVars

NextStable ==
    \/ \E m \in BagToSet(toRelay) : EnvTake(m)
    \/ \E u \in Callees, v \in VideoModes :
          Taken /\ Len(calls) < MaxStableCalls /\ UserStartCallStable(Me, u, v)
    \/ Taken /\ UserAcceptCallStable(Me)
    \/ Taken /\ UserRejectCallStable(Me)
    \/ Taken /\ UserEndCallStable(Me)
    \/ Taken /\ TimerFire(Me)
    \/ \E t \in tasks[Me], ok \in BOOLEAN : Taken /\ Resolve(Me, t, ok)
    \/ \E p \in 1..Len(pcs[Me]), s \in {"connected", "disconnected", "failed"} :
          Taken /\ ConnectionStateEventStable(Me, p, s)
    \/ \E m \in NewCallMsgs(Me) :
          Taken /\ Len(calls) < MaxStableCalls /\ EnvDeliverStable(Me, m)
    \/ \E m \in EnvMsgs(Me) : Taken /\ EnvDeliverStable(Me, m)

SpecStable == Init /\ [][NextStable]_vars

\* SpecStableMedia: SpecStable with the user at the controls of the call screen
\* and audio-only calls.
NextStableMedia ==
    \/ \E m \in BagToSet(toRelay) : EnvTake(m)
    \/ \E u \in Callees, v \in BOOLEAN :
          Taken /\ Len(calls) < MaxStableMediaCalls /\ UserStartCallStable(Me, u, v)
    \/ Taken /\ UserAcceptCallStable(Me)
    \/ Taken /\ UserRejectCallStable(Me)
    \/ Taken /\ UserEndCallStable(Me)
    \/ Taken /\ UserToggleVideoStable(Me)
    \/ Taken /\ UserToggleAudioStable(Me)
    \/ Taken /\ UserToggleScreenShareStable(Me)
    \/ Taken /\ TimerFire(Me)
    \/ \E t \in tasks[Me], ok \in BOOLEAN : Taken /\ Resolve(Me, t, ok)
    \/ \E p \in 1..Len(pcs[Me]), s \in {"connected", "disconnected", "failed"} :
          Taken /\ ConnectionStateEventStable(Me, p, s)
    \/ \E m \in NewCallMsgs(Me) :
          Taken /\ Len(calls) < MaxStableMediaCalls /\ EnvDeliverStable(Me, m)
    \/ \E m \in EnvMsgs(Me) : Taken /\ EnvDeliverStable(Me, m)

SpecStableMedia == Init /\ [][NextStableMedia]_vars

\* ------------------------------------------------- src/hooks variant, one client
\* SpecLegacy: Me runs the hook of src/hooks/useWebRTC.ts under the provider of
\* src/components/CallProvider.tsx, in the environment of Spec; capture requests
\* settle in every way the browser allows and connections gather candidates.
\* calls[k].accepted: the peer has Me's accept-call for call k.
CallScreenLegacy(c) == hook[c].callStatus # "idle" /\ hook[c].otherUser # NoUser

ModalLegacy(c) == provider[c].incomingCall # NoCall /\ hook[c].callStatus = "idle"

UserStartCallLegacy(c, user, video) ==
    /\ ~CallScreenLegacy(c)
    /\ ~ModalLegacy(c)
    /\ Commit(c, [startCallLegacy(c, Local(c), user, video, nextCallId)
                    EXCEPT !.provider = InitProvider])
    /\ calls' = Append(calls, [from |-> c, to |-> user, known |-> FALSE,
                               accepted |-> FALSE])
    /\ UNCHANGED relayVars

UserAcceptCallLegacy(c) ==
    /\ ModalLegacy(c)
    /\ Commit(c, handleAcceptCallLegacy(c, Local(c)))
    /\ UNCHANGED <<relayVars, calls>>

UserRejectCallLegacy(c) ==
    /\ ModalLegacy(c)
    /\ Commit(c, handleRejectCallLegacy(c, Local(c)))
    /\ UNCHANGED <<relayVars, calls>>

UserEndCallLegacy(c) ==
    /\ CallScreenLegacy(c)
    /\ Commit(c, endCallLegacy(c, Local(c), hook[c].callId))
    /\ UNCHANGED <<relayVars, calls>>

MediaTasksLegacy(c) == {t \in tasks[c] : t.kind \in StartKinds \cup RetryKinds
                            \cup {"answerCallLegacy:getUserMedia"}}

MediaSettlesLegacy(c, t, o) ==
    /\ t \in MediaTasksLegacy(c)
    /\ Commit(c, getUserMediaSettledLegacy(c, Local(c), t, o))
    /\ UNCHANGED <<relayVars, calls>>

ResolveLegacy(c, t, ok) ==
    /\ t \in tasks[c] \ MediaTasksLegacy(c)
    /\ Commit(c, negotiationResumedLegacy(c, Local(c), t, ok))
    /\ UNCHANGED <<relayVars, calls>>

IceCandidateEventLegacy(c, p) ==
    /\ p \in 1..Len(pcs[c])
    /\ ~pcs[c][p].closed
    /\ pcs[c][p].localDescription
    /\ pcs[c][p].gathered < MaxCands
    /\ Commit(c, onicecandidateLegacy(c, Local(c), p))
    /\ UNCHANGED <<relayVars, calls>>

ConnectionStateEventLegacy(c, p, state) ==
    /\ p \in 1..Len(pcs[c])
    /\ state \in NextConnectionStates(pcs[c][p])
    /\ Commit(c, onconnectionstatechangeLegacy(c, Local(c), p, state))
    /\ UNCHANGED <<relayVars, calls>>

HandledLegacy(c, L, m) ==
    CASE m.type = "call-initiated" -> handleCallInitiated(c, L, m)
      [] m.type = "call-accepted" -> handleCallAcceptedLegacy(c, L, m)
      [] m.type = "webrtc-offer" -> handleOfferLegacy(c, L, m)
      [] m.type = "webrtc-answer" -> handleAnswerLegacy(c, L, m)
      [] m.type = "webrtc-ice-candidate" -> handleIceCandidateLegacy(c, L, m)
      [] m.type = "call-rejected" -> handleCallRejectedLegacy(c, L, m)
      [] m.type = "call-ended" -> handleCallEndedLegacy(c, L, m)

ReceiveLegacy(c, m) ==
    LET L == HandledLegacy(c, Local(c), m)
        p == L.hook.peerConnectionRef
    IN  Commit(c, IF L # Local(c) /\ p # NoPc /\ m.callId = L.hook.callId
                  THEN [L EXCEPT !.pcs[p].seen = @ \cup {m.type}]
                  ELSE L)

\* What the peer of c's present call can send next, c having a connection.
SessionMsgsLegacy(c) ==
    LET p == hook[c].peerConnectionRef
        k == hook[c].callId
    IN  IF p = NoPc \/ k = NoCallId THEN {}
        ELSE LET pc   == pcs[c][p]
                 byMe == calls[k].from = c
                 due  == {"call-accepted" : x \in {y \in {1} : byMe /\ calls[k].known}}
                         \cup {"webrtc-offer" : x \in {y \in {1} : ~byMe /\ calls[k].accepted}}
                         \cup {"webrtc-answer" :
                                 x \in {y \in {1} : byMe /\ pc.localDescription}}
                 ice  == IF (byMe /\ pc.localDescription) \/ (~byMe /\ calls[k].accepted)
                         THEN {n \in 1..MaxCands :
                                 /\ \A j \in 1..Len(pc.applied) : pc.applied[j] # n
                                 /\ \A j \in 1..Len(pc.invalid) : pc.invalid[j] # n}
                         ELSE {}
             IN  {From(c, k, type, 0) : type \in due \ pc.seen}
                 \cup {From(c, k, "webrtc-ice-candidate", n) : n \in ice}

StaleMsgsLegacy(c) ==
    {From(c, k, type, 0) :
        k \in KnownCalls \ {hook[c].callId}, type \in SessionEvents}

EnvMsgsLegacy(c) == SessionMsgsLegacy(c) \cup StaleMsgsLegacy(c) \cup EndMsgs(c)

EnvDeliverLegacy(c, m) ==
    /\ ReceiveLegacy(c, m)
    /\ calls' = IF m.type = "call-initiated"
                THEN Append(calls, [from |-> m.from, to |-> c, known |-> TRUE,
                                    accepted |-> FALSE])
                ELSE calls
    /\ UNCHANGED relayVars

EnvTakeLegacy(m) ==
    /\ BagIn(m, toRelay)
    /\ toRelay' = toRelay (-) SetToBag({m})
    /\ calls' = CASE m.type = "initiate-call" -> [calls EXCEPT ![m.callId].known = TRUE]
                  [] m.type = "accept-call" -> [calls EXCEPT ![m.callId].accepted = TRUE]
                  [] OTHER -> calls
    /\ UNCHANGED <<hook, provider, pcs, streams, tasks, timers, relayVars>>

NextLegacy ==
    \/ \E m \in BagToSet(toRelay) : EnvTakeLegacy(m)
    \/ \E u \in Callees, v \in BOOLEAN :
          Taken /\ Len(calls) < MaxLegacyCalls /\ UserStartCallLegacy(Me, u, v)
    \/ Taken /\ UserAcceptCallLegacy(Me)
    \/ Taken /\ UserRejectCallLegacy(Me)
    \/ Taken /\ UserEndCallLegacy(Me)
    \/ Taken /\ TimerFire(Me)
    \/ \E t \in tasks[Me], o \in MediaOutcomes : Taken /\ MediaSettlesLegacy(Me, t, o)
    \/ \E t \in tasks[Me], ok \in BOOLEAN : Taken /\ ResolveLegacy(Me, t, ok)
    \/ \E p \in 1..Len(pcs[Me]) : Taken /\ IceCandidateEventLegacy(Me, p)
    \/ \E p \in 1..Len(pcs[Me]), s \in {"connected", "disconnected", "failed"} :
          Taken /\ ConnectionStateEventLegacy(Me, p, s)
    \/ \E m \in NewCallMsgs(Me) :
          Taken /\ Len(calls) < MaxLegacyCalls /\ EnvDeliverLegacy(Me, m)
    \/ \E m \in EnvMsgsLegacy(Me) : Taken /\ EnvDeliverLegacy(Me, m)

SpecLegacy == Init /\ [][NextLegacy]_vars

\* ------------------------------------------------- relay
\* The relay forwarding to registered users only, with no answer to the sender
\* of an initiate-call whose target is not registered.
ForwardedSilent(m) ==
    IF ~Registered(m.to) THEN {}
    ELSE CASE m.type = "initiate-call" ->
                {Msg("call-initiated", m.from, m.to, m.callId, 0, m.isVideoCall)}
           [] m.type = "accept-call" ->
                {Msg("call-accepted", m.from, m.to, m.callId, 0, FALSE)}
           [] m.type = "reject-call" ->
                {Msg("call-rejected", m.from, m.to, m.callId, 0, FALSE)}
           [] m.type = "end-call" ->
                {Msg("call-ended", m.from, m.to, m.callId, 0, FALSE)}
           [] OTHER -> {Msg(m.type, m.from, m.to, m.callId, m.cand, FALSE)}

\* What the relay's handler for m.type sends, and to whom: the callee-side name
\* of the event with `from` the sender's userId, to data.to if registered; an
\* initiate-call to an unregistered user is answered with call-rejected.
Forwarded(m) ==
    CASE m.type = "initiate-call" ->
            IF Registered(m.to)
            THEN {Msg("call-initiated", m.from, m.to, m.callId, 0, m.isVideoCall)}
            ELSE {Msg("call-rejected", m.to, m.from, m.callId, 0, FALSE)}
      [] m.type = "accept-call" ->
            IF Registered(m.to)
            THEN {Msg("call-accepted", m.from, m.to, m.callId, 0, FALSE)} ELSE {}
      [] m.type = "reject-call" ->
            IF Registered(m.to)
            THEN {Msg("call-rejected", m.from, m.to, m.callId, 0, FALSE)} ELSE {}
      [] m.type = "end-call" ->
            IF Registered(m.to)
            THEN {Msg("call-ended", m.from, m.to, m.callId, 0, FALSE)} ELSE {}
      [] m.type \in {"webrtc-offer", "webrtc-answer"} ->
            IF Registered(m.to)
            THEN {Msg(m.type, m.from, m.to, m.callId, 0, FALSE)} ELSE {}
      [] m.type = "webrtc-ice-candidate" ->
            IF Registered(m.to)
            THEN {Msg(m.type, m.from, m.to, m.callId, m.cand, FALSE)} ELSE {}

RelayHandle(m) ==
    /\ BagIn(m, toRelay)
    /\ toRelay' = toRelay (-) SetToBag({m})
    /\ toClient' = toClient (+) SetToBag(Forwarded(m))
    /\ relayLog' = relayLog (+) SetToBag({m})
    /\ UNCHANGED <<hook, provider, pcs, streams, tasks, timers,
                   onlineUsers, sockets, emits, calls>>

\* The socket of m.to hands m to the handler registered for it.
Deliver(m) ==
    /\ BagIn(m, toClient)
    /\ Receive(m.to, m)
    /\ toClient' = toClient (-) SetToBag({m})
    /\ UNCHANGED <<onlineUsers, sockets, emits, relayLog, calls>>

\* The events of the given type c has emitted, handled by the relay or not yet.
Sent(c, type) ==
    LET b == toRelay (+) relayLog
        S == {m \in BagToSet(b) : m.type = type /\ m.from = c}
    IN  BagCardinality([m \in S |-> b[m]])

\* ------------------------------------------------- the relay's sockets
\* SpecRelay: sockets connect, send call-signaling events and disconnect, in
\* any order; they authenticate as A, as B or with no userId, several of them
\* may authenticate with the same userId, and C never connects.
\* Sockets that connect over a run of SpecRelay.
MaxSockets == 3
\* Call ids the events of SpecRelay carry.
MaxRelayCalls == 1

SignalTypes == {"initiate-call", "accept-call", "reject-call", "end-call",
                "webrtc-offer", "webrtc-answer", "webrtc-ice-candidate"}

\* The payloads a socket sends: the client names the target and the call; the
\* payload has no `from`.
SignalData ==
    {Msg(type, NoUser, to, k, 0, FALSE) :
        type \in SignalTypes, to \in Users, k \in 1..MaxRelayCalls}

\* `from: userId`, the userId of the handshake of the socket the handler was
\* registered on.
Stamped(s, data) == [data EXCEPT !.from = sockets[s].userId]

\* The relay emitting to every connected socket of the target user.
EmitsToUser(s, data) ==
    IF Registered(data.to)
    THEN {[socket |-> t, msg |-> x] :
             t \in {q \in 1..Len(sockets) :
                       sockets[q].connected /\ sockets[q].userId = data.to},
             x \in Forwarded(Stamped(s, data))}
    ELSE {[socket |-> s, msg |-> x] : x \in Forwarded(Stamped(s, data))}

\* What a handler of socket s emits for data, and to which socket:
\* `io.to(targetSocketId).emit(...)` when data.to is registered, and
\* `socket.emit("call-rejected", ...)` to s itself otherwise.
Emits(s, data) ==
    {[socket |-> IF Registered(data.to) THEN onlineUsers[data.to] ELSE s,
      msg |-> x] : x \in Forwarded(Stamped(s, data))}

\* io.on("connection"): a userId, if the handshake has one, is registered
\* under the new socket's id.
SocketConnect(u) ==
    /\ Len(sockets) < MaxSockets
    /\ sockets' = Append(sockets, Socket(u))
    /\ onlineUsers' = IF u # NoUser
                      THEN [onlineUsers EXCEPT ![u] = Len(sockets) + 1]
                      ELSE onlineUsers
    /\ UNCHANGED <<hook, provider, pcs, streams, tasks, timers,
                   toRelay, toClient, emits, relayLog, calls>>

\* socket.on("disconnect"): the socket's userId, if it has one, is deleted
\* from the registry.
SocketClose(s) ==
    /\ sockets[s].connected
    /\ sockets' = [sockets EXCEPT ![s].connected = FALSE]
    /\ onlineUsers' = IF sockets[s].userId # NoUser
                      THEN [onlineUsers EXCEPT ![sockets[s].userId] = NoSocket]
                      ELSE onlineUsers
    /\ UNCHANGED <<hook, provider, pcs, streams, tasks, timers,
                   toRelay, toClient, emits, relayLog, calls>>

\* A call-signaling event arrives on socket s.
SocketSignal(s, data) ==
    /\ sockets[s].connected
    /\ emits' = Emits(s, data)
    /\ UNCHANGED <<hook, provider, pcs, streams, tasks, timers,
                   toRelay, toClient, onlineUsers, sockets, relayLog, calls>>

InitRelay ==
    /\ hook = [c \in Users |-> InitHook]
    /\ provider = [c \in Users |-> InitProvider]
    /\ pcs = [c \in Users |-> <<>>]
    /\ streams = [c \in Users |-> <<>>]
    /\ tasks = [c \in Users |-> {}]
    /\ timers = [c \in Users |-> 0]
    /\ toRelay = EmptyBag
    /\ toClient = EmptyBag
    /\ onlineUsers = [u \in Users |-> NoSocket]
    /\ sockets = <<>>
    /\ emits = {}
    /\ relayLog = EmptyBag
    /\ calls = <<>>

NextRelay ==
    \/ \E u \in {"A", "B", NoUser} : SocketConnect(u)
    \/ \E s \in 1..Len(sockets) : SocketClose(s)
    \/ \E s \in 1..Len(sockets), data \in SignalData : SocketSignal(s, data)

SpecRelay == InitRelay /\ [][NextRelay]_vars

\* ------------------------------------------------- clients over the relay
\* SpecCall: A calls B, B accepts; media is granted, every browser operation
\* succeeds, nobody hangs up.  SpecBusy: the same, and C calls B once B is
\* connected.
Caller == "A"

Callee == "B"

Third == "C"

\* The connection of c to its peer's call, if both ends still have theirs.
Linked(c, p) ==
    \E d \in Users \ {c} :
        LET q == hook[d].peerConnectionRef
        IN  /\ q # NoPc
            /\ pcs[d][q].callId = pcs[c][p].callId
            /\ pcs[d][q].localDescription /\ pcs[d][q].remoteDescription

Connects(c, p) ==
    /\ p \in 1..Len(pcs[c])
    /\ Linked(c, p)
    /\ ConnectionStateEvent(c, p, "connected")

NextCall ==
    \/ calls = <<>> /\ UserStartCall(Caller, Callee, TRUE)
    \/ UserAcceptCall(Callee)
    \/ \E c \in Users : \E t \in tasks[c] : Resolve(c, t, TRUE)
    \/ \E c \in Users : \E p \in 1..Len(pcs[c]) : IceCandidateEvent(c, p)
    \/ \E c \in Users : \E p \in 1..Len(pcs[c]) : Connects(c, p)
    \/ \E m \in BagToSet(toRelay) : RelayHandle(m)
    \/ \E m \in BagToSet(toClient) : Deliver(m)

SpecCall == Init /\ [][NextCall]_vars /\ WF_vars(NextCall)

NextBusy ==
    \/ calls = <<>> /\ UserStartCall(Caller, Callee, TRUE)
    \/ UserAcceptCall(Callee)
    \/ /\ Len(calls) = 1
       /\ hook[Caller].callStatus = "connected"
       /\ hook[Callee].callStatus = "connected"
       /\ UserStartCall(Third, Callee, TRUE)
    \/ \E c \in Users : \E t \in tasks[c] : Resolve(c, t, TRUE)
    \/ \E c \in Users : \E p \in 1..Len(pcs[c]) : IceCandidateEvent(c, p)
    \/ \E c \in Users : \E p \in 1..Len(pcs[c]) : Connects(c, p)
    \/ \E c \in Users : TimerFire(c)
    \/ \E m \in BagToSet(toRelay) : RelayHandle(m)
    \/ \E m \in BagToSet(toClient) : Deliver(m)

SpecBusy == Init /\ [][NextBusy]_vars

\* ------------------------------------------------- glare
\* SpecGlare: A and B each start one call to the other, at any time; the relay
\* forwards and the sockets deliver in any order, every event eventually.  A
\* user who is shown an incoming call may accept it; nobody hangs up.
Started(c) == \E k \in 1..Len(calls) : calls[k].from = c

NextGlare ==
    \/ ~Started(Caller) /\ UserStartCall(Caller, Callee, TRUE)
    \/ ~Started(Callee) /\ UserStartCall(Callee, Caller, TRUE)
    \/ \E c \in Users : UserAcceptCall(c)
    \/ \E c \in Users : \E t \in tasks[c], ok \in BOOLEAN : Resolve(c, t, ok)
    \/ \E c \in Users : \E p \in 1..Len(pcs[c]) : Connects(c, p)
    \/ \E c \in Users : TimerFire(c)
    \/ \E m \in BagToSet(toRelay) : RelayHandle(m)
    \/ \E m \in BagToSet(toClient) : Deliver(m)

\* Promises settle, timers fire, the relay handles and the sockets deliver.
Eventually ==
    /\ WF_vars(\E c \in Users : \E t \in tasks[c], ok \in BOOLEAN : Resolve(c, t, ok))
    /\ WF_vars(\E c \in Users : TimerFire(c))
    /\ WF_vars(\E m \in BagToSet(toRelay) : RelayHandle(m))
    /\ WF_vars(\E m \in BagToSet(toClient) : Deliver(m))

SpecGlare == Init /\ [][NextGlare]_vars /\ Eventually

\* ------------------------------------------------- the caller cancels
\* SpecCancel: A places a voice or video call to B or C and hangs up once its
\* initiate-call is out, before the callee has done anything; the callee's
\* user does not touch the page.  The relay forwards and the sockets deliver
\* in any order, every event eventually.
NextCancel ==
    \/ \E u \in Users \ {Caller}, v \in BOOLEAN :
          calls = <<>> /\ UserStartCall(Caller, u, v)
    \/ Sent(Caller, "initiate-call") > 0 /\ UserEndCall(Caller)
    \/ \E c \in Users : \E t \in tasks[c], ok \in BOOLEAN : Resolve(c, t, ok)
    \/ \E c \in Users : TimerFire(c)
    \/ \E m \in BagToSet(toRelay) : RelayHandle(m)
    \/ \E m \in BagToSet(toClient) : Deliver(m)

SpecCancel == Init /\ [][NextCancel]_vars /\ Eventually

\* ------------------------------------------------- one call, ended
\* SpecHangup: A places one call to B; B accepts or declines it, either user
\* hangs up whenever the call screen lets them, any browser operation may
\* fail and a connection may be lost.  The relay forwards and the sockets
\* deliver in any order.
NextHangup ==
    \/ \E v \in BOOLEAN : calls = <<>> /\ UserStartCall(Caller, Callee, v)
    \/ UserAcceptCall(Callee)
    \/ UserRejectCall(Callee)
    \/ \E c \in Users : UserEndCall(c)
    \/ \E c \in Users : \E t \in tasks[c], ok \in BOOLEAN : Resolve(c, t, ok)
    \/ \E c \in Users : \E p \in 1..Len(pcs[c]) : Connects(c, p)
    \/ \E c \in Users : \E p \in 1..Len(pcs[c]) :
          \E state \in {"disconnected", "failed"} : ConnectionStateEvent(c, p, state)
    \/ \E c \in Users : TimerFire(c)
    \/ \E m \in BagToSet(toRelay) : RelayHandle(m)
    \/ \E m \in BagToSet(toClient) : Deliver(m)

SpecHangup == Init /\ [][NextHangup]_vars

\* ------------------------------------------------- a user goes offline
\* SpecOffline: A calls B or C over the relay; either of them may lose its
\* socket, once, at any time.  The relay's disconnect handler removes the user
\* from the registry and the client's CallProvider runs handleDisconnect; from
\* then on the relay hears nothing from that socket and what it had sent to it
\* is lost.
SocketDisconnect(u) ==
    /\ Registered(u)
    /\ sockets' = [sockets EXCEPT ![onlineUsers[u]].connected = FALSE]
    /\ onlineUsers' = [onlineUsers EXCEPT ![u] = NoSocket]
    /\ Commit(u, handleDisconnect(u, Local(u)))
    /\ UNCHANGED <<toClient, emits, relayLog, calls>>

\* An event forwarded to a socket that has gone.
Lost(m) ==
    /\ BagIn(m, toClient)
    /\ ~Registered(m.to)
    /\ toClient' = toClient (-) SetToBag({m})
    /\ UNCHANGED <<hook, provider, pcs, streams, tasks, timers, toRelay,
                   onlineUsers, sockets, emits, relayLog, calls>>

Deliverable == \E m \in BagToSet(toClient) : Registered(m.to) /\ Deliver(m)

Relayable == \E m \in BagToSet(toRelay) : Registered(m.from) /\ RelayHandle(m)

NextOffline ==
    \/ \E u \in Users \ {Caller} : calls = <<>> /\ UserStartCall(Caller, u, TRUE)
    \/ \E u \in Users \ {Caller} : Registered(u) /\ UserAcceptCall(u)
    \/ \E u \in Users \ {Caller} : SocketDisconnect(u)
    \/ \E c \in Users : \E t \in tasks[c] : Resolve(c, t, TRUE)
    \/ \E c \in Users : \E p \in 1..Len(pcs[c]) : Connects(c, p)
    \/ \E c \in Users : TimerFire(c)
    \/ Relayable
    \/ Deliverable
    \/ \E m \in BagToSet(toClient) : Lost(m)

\* The relay handles what it receives and a connected socket hands over what
\* it is sent.
SpecOffline ==
    Init /\ [][NextOffline]_vars /\ WF_vars(Relayable) /\ WF_vars(Deliverable)

\* ------------------------------------------------- properties
Cur(c) == hook[c].peerConnectionRef

Range(s) == {s[i] : i \in 1..Len(s)}

NoDuplicates(s) == \A i, j \in 1..Len(s) : s[i] = s[j] => i = j

IsPrefix(s, t) == Len(s) <= Len(t) /\ s = SubSeq(t, 1, Len(s))

\* A processIceQueue loop is suspended at an addIceCandidate.
Draining(c) ==
    \E t \in tasks[c] :
        t.kind \in {"handleOffer:addIceCandidate", "handleAnswer:addIceCandidate"}

GetUserMediaTasks == {"startCall:getUserMedia", "answerCall:getUserMedia"}

\* C1: whatever the interleaving of the remote description with the candidates
\* of the active call, no candidate is handed to the connection twice, the
\* candidates queued before the gate opened are handed over in the order they
\* were received, and once the gate is open and the queue is drained every
\* candidate received for the connection has been applied to it exactly once.
CandidatesAppliedOnce ==
    /\ \A p \in 1..Len(pcs[Me]) :
          LET pc == pcs[Me][p]
          IN  /\ NoDuplicates(pc.applied)
              /\ Range(pc.applied) \subseteq Range(pc.received)
              /\ IsPrefix(SelectSeq(pc.applied, LAMBDA x : x \in Range(pc.queued)),
                          pc.queued)
    /\ (Cur(Me) # NoPc /\ hook[Me].isRemoteDescriptionSetRef /\ ~Draining(Me)) =>
          LET pc == pcs[Me][Cur(Me)]
          IN  /\ Range(pc.applied) = Range(pc.received)
              /\ Len(pc.applied) = Len(pc.received)
              /\ SelectSeq(pc.applied, LAMBDA x : x \in Range(pc.queued)) = pc.queued

\* A candidate was queued, the gate opened, the queue was drained and a later
\* candidate was applied directly: all MaxCands of them are on the connection.
CandidatesAppliedOnceWitness ==
    /\ Cur(Me) # NoPc
    /\ hook[Me].isRemoteDescriptionSetRef
    /\ ~Draining(Me)
    /\ pcs[Me][Cur(Me)].queued # <<>>
    /\ Len(pcs[Me][Cur(Me)].received) > Len(pcs[Me][Cur(Me)].queued)
    /\ Len(pcs[Me][Cur(Me)].applied) = MaxCands

\* C2: addIceCandidate is never invoked on a connection that has no remote
\* description; while the remote-description flag is false nothing has been
\* applied to the current connection, every candidate received for it is on
\* the queue, and a candidate that arrives is appended to the queue and
\* changes nothing else.
CandidatesGated ==
    /\ \A p \in 1..Len(pcs[Me]) : pcs[Me][p].invalid = <<>>
    /\ (Cur(Me) # NoPc /\ ~hook[Me].isRemoteDescriptionSetRef) =>
          /\ pcs[Me][Cur(Me)].applied = <<>>
          /\ hook[Me].iceCandidateQueueRef = pcs[Me][Cur(Me)].received
          /\ \A m \in IceMsgs(Me) :
                Handled(Me, Local(Me), m) =
                    [Local(Me) EXCEPT
                        !.hook.iceCandidateQueueRef = Append(@, m.cand),
                        !.pcs[Cur(Me)].received = Append(@, m.cand),
                        !.pcs[Cur(Me)].queued = Append(@, m.cand)]

\* A candidate arrived while setRemoteDescription was still awaited and is on
\* the queue.
CandidatesGatedWitness ==
    /\ Cur(Me) # NoPc
    /\ ~hook[Me].isRemoteDescriptionSetRef
    /\ hook[Me].iceCandidateQueueRef # <<>>
    /\ \E t \in tasks[Me] :
          t.kind \in {"handleOffer:setRemoteDescription",
                      "handleAnswer:setRemoteDescription"}

\* C3: on a session that is not idle, endCall followed at once by endCall does
\* what one endCall does: the first emits one end-call (there is a peer and a
\* call id), stops the local stream once, closes the connection once, resets
\* the session, arms one timer and calls onCallEnded once; the second changes
\* nothing and has no effects.
EndCallOnce ==
    hook[Me].callStatus # "idle" =>
        LET h  == hook[Me]
            L1 == endCall(Me, Local(Me))
            L2 == endCall(Me, L1)
        IN  /\ L2 = L1
            /\ Count(L1, "emit") = 1
            /\ Emitted(L1)[1].msg =
                   Msg("end-call", Me, h.otherUserIdRef, h.callIdRef, 0, FALSE)
            /\ Count(L1, "stop") = IF h.localStreamRef # NoStream THEN 1 ELSE 0
            /\ Count(L1, "close") = IF h.peerConnectionRef # NoPc THEN 1 ELSE 0
            /\ Count(L1, "onCallEnded") = 1
            /\ L1.timers = timers[Me] + 1
            /\ L1.hook = [InitHook EXCEPT !.isEndingCallRef = TRUE,
                                          !.isVideoCall = h.isVideoCall]

\* C4: while callStatus is not idle, the call-initiated of a new call makes the
\* client emit reject-call to the new caller for that call, and changes
\* nothing: no incoming call is recorded, and the session, its connection and
\* its media are as they were.
BusyAutoReject ==
    hook[Me].callStatus # "idle" =>
        \A m \in NewCallMsgs(Me) :
            Handled(Me, Local(Me), m) =
                Emit(Local(Me), Msg("reject-call", Me, m.from, m.callId, 0, FALSE))

\* The client, in a call, has just auto-rejected another call.
BusyAutoRejectWitness ==
    /\ hook[Me].callStatus = "connected"
    /\ provider[Me].incomingCall = NoCall
    /\ \E m \in BagToSet(toRelay) :
          m.type = "reject-call" /\ m.callId # hook[Me].callIdRef

\* C5: over the relay, after C has called B while B was connected with A, B is
\* still connected with A on the first call and has emitted no end-call.
BusyCallKept ==
    Len(calls) = 2 =>
        /\ hook[Callee].callStatus = "connected"
        /\ hook[Callee].callIdRef = 1
        /\ hook[Callee].otherUserIdRef = Caller
        /\ Sent(Callee, "end-call") = 0

\* C6: while a call is tracked, a call-ended or call-rejected for another call
\* changes nothing and has no effects.
StaleEndIgnored ==
    hook[Me].callIdRef # NoCallId =>
        \A m \in EndMsgs(Me) :
            m.callId # hook[Me].callIdRef => Handled(Me, Local(Me), m) = Local(Me)

\* C7: a call-accepted, webrtc-offer, webrtc-answer or webrtc-ice-candidate for
\* a call other than the tracked one changes nothing and has no effects.
MismatchedIgnored ==
    \A u \in Users \ {Me}, k \in (1..(MaxCalls + 1)) \ {hook[Me].callIdRef} :
        /\ \A type \in SessionEvents :
              Handled(Me, Local(Me), Msg(type, u, Me, k, 0, FALSE)) = Local(Me)
        /\ \A n \in 1..MaxCands :
              Handled(Me, Local(Me), Msg("webrtc-ice-candidate", u, Me, k, n, FALSE))
                  = Local(Me)

\* The client is in a call, with its connection, and events of an earlier call
\* the peers know of can still arrive.
MismatchedIgnoredWitness ==
    /\ hook[Me].callIdRef # NoCallId
    /\ Cur(Me) # NoPc
    /\ hook[Me].isInitiatorRef
    /\ StaleMsgs(Me) # {}

\* Both ends are connected on the same call with a remote stream, one
\* webrtc-offer from the caller and one webrtc-answer from the callee.
Established ==
    /\ hook[Caller].callStatus = "connected"
    /\ hook[Callee].callStatus = "connected"
    /\ hook[Caller].callId # NoCallId
    /\ hook[Caller].callId = hook[Callee].callId
    /\ hook[Caller].remoteStream
    /\ hook[Callee].remoteStream
    /\ Sent(Caller, "webrtc-offer") = 1
    /\ Sent(Callee, "webrtc-answer") = 1

\* The caller emits a webrtc-offer only once call-accepted has reached it.
OfferAfterAccepted ==
    Sent(Caller, "webrtc-offer") > 0 =>
        /\ Cur(Caller) # NoPc
        /\ "call-accepted" \in pcs[Caller][Cur(Caller)].seen

\* C8: on the happy path the call ends up established for good (so no second
\* offer or answer is ever emitted), and the caller's offer is never out before
\* call-accepted has reached the caller.
HappyPath == <>[]Established /\ []OfferAfterAccepted

\* The call is established and nothing is left in flight or suspended.
HappyPathWitness ==
    /\ Established
    /\ toRelay = EmptyBag
    /\ toClient = EmptyBag
    /\ \A c \in Users : tasks[c] = {}
    /\ Sent(Callee, "accept-call") = 1

\* C9: a startCall or answerCall that resumes from getUserMedia after its call
\* was terminated creates no connection, emits nothing, leaves the session
\* idle without a local stream, and leaves no captured stream live.
StaleMediaDiscarded ==
    \A t \in tasks[Me] :
        (/\ t.kind \in GetUserMediaTasks
         /\ hook[Me].callStatus = "idle"
         /\ hook[Me].callIdRef = NoCallId) =>
            LET L == Resumed(Me, Local(Me), t, TRUE)
            IN  /\ Len(L.pcs) = Len(pcs[Me])
                /\ Emitted(L) = <<>>
                /\ L.hook.callStatus = "idle"
                /\ L.hook.localStream = NoStream
                /\ \A i \in 1..Len(L.streams) :
                      L.streams[i].live => i <= Len(streams[Me]) /\ streams[Me][i].live

\* C10: while an incoming call is recorded and awaits the user, a call-initiated
\* from another caller for another call makes the client emit reject-call to
\* that caller and changes nothing: the recorded call is as it was.
PendingCallKept ==
    (provider[Me].incomingCall # NoCall /\ hook[Me].callStatus = "idle") =>
        \A m \in NewCallMsgs(Me) :
            m.from # provider[Me].incomingCall.from =>
                Handled(Me, Local(Me), m) =
                    Emit(Local(Me), Msg("reject-call", Me, m.from, m.callId, 0, FALSE))

\* C11: handling the call-rejected of the call the client started and is
\* waiting on emits no signaling event.
RejectedSilent ==
    \A m \in EndMsgs(Me) :
        (/\ m.type = "call-rejected"
         /\ m.callId = hook[Me].callIdRef
         /\ hook[Me].isInitiatorRef
         /\ hook[Me].callStatus = "calling") =>
            Emitted(Handled(Me, Local(Me), m)) = <<>>

\* C12: a webrtc-offer for the tracked call handled by the initiator, and a
\* webrtc-answer for the tracked call handled by the receiver, change nothing
\* and have no effects.
RoleChecked ==
    (Cur(Me) # NoPc /\ hook[Me].callIdRef # NoCallId) =>
        LET type == IF hook[Me].isInitiatorRef THEN "webrtc-offer" ELSE "webrtc-answer"
        IN  \A u \in Users \ {Me} :
                Handled(Me, Local(Me), Msg(type, u, Me, hook[Me].callIdRef, 0, FALSE))
                    = Local(Me)

\* C13: when the current connection of a session that is not idle and not
\* ending reports "failed", the handler leaves the session idle, with the local
\* stream stopped, the connection closed and one end-call emitted.
FailureTerminates ==
    (/\ Cur(Me) # NoPc
     /\ hook[Me].callStatus # "idle"
     /\ ~hook[Me].isEndingCallRef
     /\ "failed" \in NextConnectionStates(pcs[Me][Cur(Me)])) =>
        LET L == onconnectionstatechange(Me, Local(Me), Cur(Me), "failed")
        IN  /\ L.hook.callStatus = "idle"
            /\ L.pcs[Cur(Me)].closed
            /\ Count(L, "emit") = 1

\* C14: when a connection reports "disconnected" the handler changes nothing
\* but the connection's own state: status, callId, refs, the connection, the
\* streams, the suspended handlers and the timers are as they were, and nothing
\* is emitted, stopped or closed.
DisconnectedKept ==
    \A p \in 1..Len(pcs[Me]) :
        "disconnected" \in NextConnectionStates(pcs[Me][p]) =>
            onconnectionstatechange(Me, Local(Me), p, "disconnected")
                = [Local(Me) EXCEPT !.pcs[p].connectionState = "disconnected"]

\* The current connection of a connected call has reported "disconnected" and
\* the call is still up.
DisconnectedKeptWitness ==
    /\ Cur(Me) # NoPc
    /\ pcs[Me][Cur(Me)].connectionState = "disconnected"
    /\ ~pcs[Me][Cur(Me)].closed
    /\ hook[Me].callStatus = "connected"
    /\ hook[Me].callIdRef = pcs[Me][Cur(Me)].callId
    /\ streams[Me][hook[Me].localStreamRef].live

\* C20: when the getUserMedia awaited by the startCall or answerCall of the
\* tracked call rejects, the session is left idle with callId, remote endpoint
\* and otherUser cleared and no connection, and neither initiate-call nor
\* accept-call is emitted.
MediaFailureTerminates ==
    \A t \in tasks[Me] :
        (t.kind \in GetUserMediaTasks /\ t.callId = hook[Me].callIdRef) =>
            LET L == Resumed(Me, Local(Me), t, FALSE)
            IN  /\ L.hook.callStatus = "idle"
                /\ L.hook.callId = NoCallId
                /\ L.hook.callIdRef = NoCallId
                /\ L.hook.otherUserIdRef = NoUser
                /\ L.hook.otherUser = NoUser
                /\ L.hook.peerConnectionRef = NoPc
                /\ \A i \in 1..Len(Emitted(L)) :
                      Emitted(L)[i].msg.type \notin {"initiate-call", "accept-call"}

\* C19: a socket disconnect while callStatus is not idle leaves the session
\* idle; while it is idle the disconnect changes nothing and has no effects.
DisconnectEndsCall ==
    /\ hook[Me].callStatus # "idle" =>
           handleDisconnect(Me, Local(Me)).hook.callStatus = "idle"
    /\ hook[Me].callStatus = "idle" =>
           handleDisconnect(Me, Local(Me)) = Local(Me)

\* The relay handles an initiate-call whose target is not registered by
\* sending call-rejected, with the call's id and from the target, to the
\* caller, and nothing else to anybody.
OfflineAnswered ==
    \A m \in BagToSet(toRelay) :
        (m.type = "initiate-call" /\ ~Registered(m.to) /\ RelayHandle(m)) =>
            toClient' = toClient (+)
                SetToBag({Msg("call-rejected", m.to, m.from, m.callId, 0, FALSE)})

\* A call-rejected is on its way to the caller.
RejectionSent ==
    \E m \in BagToSet(toClient) : m.type = "call-rejected" /\ m.to = Caller

\* C18: an initiate-call for a user that is not in the registry is answered
\* with call-rejected to the caller and call-initiated to nobody, and the
\* caller, once the rejection is on its way, ends up idle.
OfflineRejected ==
    /\ [][OfflineAnswered]_vars
    /\ RejectionSent ~> (hook[Caller].callStatus = "idle")

\* The caller called a user that had gone offline, the relay answered, and the
\* caller has handled the rejection: it is idle and its end-call is out.
OfflineRejectedWitness ==
    /\ \E u \in Users \ {Caller} :
          /\ ~Registered(u)
          /\ calls = <<NewCall(Caller, u, FALSE)>>
          /\ hook[u] = InitHook
    /\ Sent(Caller, "initiate-call") = 1
    /\ relayLog # EmptyBag
    /\ toClient = EmptyBag
    /\ hook[Caller].callStatus = "idle"
    /\ Sent(Caller, "end-call") = 1

\* C15: from a state that is not idle, an endCall that executes (no other one
\* is in flight) leaves the local stream and the screen-share stream stopped
\* and the connection closed, every ref and every piece of React state of the
\* session at its default (isVideoCall is not one of them, isEndingCallRef is
\* the flag it has just set), and has invoked onCallEnded once.
EndCallResets ==
    (hook[Me].callStatus # "idle" /\ ~hook[Me].isEndingCallRef) =>
        LET h == hook[Me]
            L == endCall(Me, Local(Me))
        IN  /\ h.localStreamRef # NoStream => ~L.streams[h.localStreamRef].live
            /\ h.screenStreamRef # NoStream => ~L.streams[h.screenStreamRef].live
            /\ h.peerConnectionRef # NoPc => L.pcs[h.peerConnectionRef].closed
            /\ L.hook = [InitHook EXCEPT !.isEndingCallRef = TRUE,
                                         !.isVideoCall = h.isVideoCall]
            /\ Count(L, "onCallEnded") = 1

\* A call with the camera off, the microphone off and the screen shared has
\* been ended: the session is at its defaults, both streams are stopped and
\* the connection is closed.
EndCallResetsWitness ==
    /\ hook[Me] = [InitHook EXCEPT !.isEndingCallRef = TRUE, !.isVideoCall = TRUE]
    /\ timers[Me] = 1
    /\ \E p \in 1..Len(pcs[Me]) : pcs[Me][p].closed
    /\ \E i, j \in 1..Len(streams[Me]) :
          /\ streams[Me][i] = [kind |-> "camera", live |-> FALSE, hasVideo |-> TRUE,
                               video |-> FALSE, audio |-> FALSE, onended |-> FALSE]
          /\ streams[Me][j].kind = "screen" /\ ~streams[Me][j].live

\* C16: in the stable-ref hook, whenever the session is not idle, handling an
\* inbound call-ended or call-rejected leaves it idle with the local stream
\* stopped and the connection closed -- also when the session was started
\* within 500 ms of a previous termination.
StableEndHonoured ==
    hook[Me].callStatus # "idle" =>
        \A type \in {"call-ended", "call-rejected"} :
            LET h == hook[Me]
                L == HandledStable(Me, Local(Me),
                         Msg(type, h.otherUserIdRef, Me, h.callIdRef, 0, FALSE))
            IN  /\ L.hook.callStatus = "idle"
                /\ h.localStreamRef # NoStream => ~L.streams[h.localStreamRef].live
                /\ h.peerConnectionRef # NoPc => L.pcs[h.peerConnectionRef].closed

\* C17: in CallProvider over the stable-ref hook, declining the incoming-call
\* prompt emits reject-call{to: the caller, callId: the incoming callId}.
StableDeclineRejects ==
    (provider[Me].incomingCall # NoCall /\ hook[Me].callStatus = "idle") =>
        LET ic == provider[Me].incomingCall
            L  == handleRejectCallStable(Me, Local(Me))
        IN  \E i \in 1..Len(Emitted(L)) :
                Emitted(L)[i].msg = Msg("reject-call", Me, ic.from, ic.callId, 0, FALSE)

\* The awaits of offer/answer creation and application.
NegotiationKinds ==
    {"handleCallAccepted:createOffer", "handleCallAccepted:setLocalDescription",
     "handleOffer:setRemoteDescription", "handleOffer:createAnswer",
     "handleOffer:setLocalDescription", "handleAnswer:setRemoteDescription"}

\* C21: when createOffer, createAnswer, setLocalDescription or
\* setRemoteDescription of the current session rejects, the handler leaves an
\* error set and the session idle.
NegotiationFailureTerminates ==
    \A t \in tasks[Me] :
        (/\ t.kind \in NegotiationKinds
         /\ t.callId = hook[Me].callIdRef
         /\ t.pc = hook[Me].peerConnectionRef
         /\ hook[Me].callStatus \in {"calling", "ringing"}) =>
            LET L == Resumed(Me, Local(Me), t, FALSE)
            IN  L.hook.error # NoError /\ L.hook.callStatus = "idle"

\* C23: in every reachable state the client holds at most one peer connection
\* that is not closed and at most one live local capture stream.
OneConnectionOneStream ==
    /\ Cardinality({p \in 1..Len(pcs[Me]) : ~pcs[Me][p].closed}) <= 1
    /\ Cardinality({i \in 1..Len(streams[Me]) :
                        streams[Me][i].kind = "camera" /\ streams[Me][i].live}) <= 1

\* C24: while the ending flag set by endCall has not been reset by its timer,
\* startCall and answerCall create no session: no status change, no media
\* acquisition, no initiate-call or accept-call.
CooldownBlocks ==
    (hook[Me].isEndingCallRef /\ timers[Me] > 0 /\ hook[Me].callStatus = "idle") =>
        \A L \in {startCall(Me, Local(Me), u, TRUE, nextCallId) : u \in Callees}
               \cup {answerCall(Me, Local(Me), nextCallId, u, TRUE) : u \in Callers} :
            /\ L.hook.callStatus = "idle"
            /\ L.tasks = tasks[Me]
            /\ L.streams = streams[Me]
            /\ Emitted(L) = <<>>

\* C25: toggleVideo and toggleAudio, in any state, emit nothing and change
\* nothing but the enabled flag of the local track of their kind, if there is
\* one, and the matching isVideoEnabled / isAudioEnabled.
TogglesLocalOnly ==
    LET L0 == Local(Me)
        s  == hook[Me].localStreamRef
        V  == toggleVideo(Me, L0)
        A  == toggleAudio(Me, L0)
    IN  /\ V.log = <<>> /\ A.log = <<>>
        /\ IF s # NoStream /\ L0.streams[s].hasVideo
           THEN V = [L0 EXCEPT !.streams[s].video = ~@,
                               !.hook.isVideoEnabled = ~L0.streams[s].video]
           ELSE V = L0
        /\ IF s # NoStream
           THEN A = [L0 EXCEPT !.streams[s].audio = ~@,
                               !.hook.isAudioEnabled = ~L0.streams[s].audio]
           ELSE A = L0

\* On a connected call the camera has been switched off and the microphone
\* muted, and the session is otherwise as it was.
TogglesLocalOnlyWitness ==
    LET s == hook[Me].localStreamRef
    IN  /\ hook[Me].callStatus = "connected"
        /\ s # NoStream
        /\ ~streams[Me][s].video /\ ~hook[Me].isVideoEnabled
        /\ ~streams[Me][s].audio /\ ~hook[Me].isAudioEnabled
        /\ streams[Me][s].live
        /\ ~pcs[Me][hook[Me].peerConnectionRef].closed

\* The handler suspended in L1 that was not suspended in L0, resumed with its
\* promise resolved.
Completed(L0, L1) ==
    LET t == CHOOSE t \in L1.tasks \ L0.tasks : TRUE
    IN  Resumed(Me, L1, t, TRUE)

\* A connected video call with the camera track on the video sender and no
\* screen share started or in progress.
CameraOnSender ==
    LET h == hook[Me]
    IN  /\ h.callStatus = "connected"
        /\ h.peerConnectionRef # NoPc /\ h.localStreamRef # NoStream
        /\ ~pcs[Me][h.peerConnectionRef].closed
        /\ pcs[Me][h.peerConnectionRef].videoSender = h.localStreamRef
        /\ ~h.isScreenSharing /\ h.screenStreamRef = NoStream
        /\ \A t \in tasks[Me] :
              t.kind \notin {"toggleScreenShare:getDisplayMedia",
                             "toggleScreenShare:replaceTrack(screen)",
                             "toggleScreenShare:replaceTrack(camera)"}

\* C26: on a connected video call, toggleScreenShare run to completion twice
\* (start, then stop) leaves the camera track on the video sender, the screen
\* capture stopped, screenStreamRef cleared and isScreenSharing false, and
\* emits nothing: the session is as before but for the stopped capture.
ScreenShareRestores ==
    CameraOnSender =>
        LET L0 == Local(Me)
            h  == L0.hook
            L1 == toggleScreenShare(Me, L0, h.isScreenSharing)
            L2 == Completed(L0, L1)
            L3 == Completed(L1, L2)
            L4 == toggleScreenShare(Me, L3, L3.hook.isScreenSharing)
            L5 == Completed(L3, L4)
            n  == Len(L0.streams) + 1
        IN  /\ L3.hook.isScreenSharing /\ L3.hook.screenStreamRef = n
            /\ L3.pcs[h.peerConnectionRef].videoSender = n
            /\ L5.pcs[h.peerConnectionRef].videoSender = h.localStreamRef
            /\ L5.pcs = L0.pcs
            /\ L5.streams[h.localStreamRef].live
            /\ Len(L5.streams) = n /\ ~L5.streams[n].live
            /\ L5.hook = L0.hook
            /\ L5.tasks = L0.tasks
            /\ Emitted(L5) = <<>>

\* A screen share was started and stopped on a call that is still connected:
\* the capture is stopped and the camera track is on the sender.
ScreenShareRestoresWitness ==
    LET h == hook[Me]
    IN  /\ CameraOnSender
        /\ \E i \in 1..Len(streams[Me]) :
              streams[Me][i].kind = "screen" /\ ~streams[Me][i].live
        /\ streams[Me][h.localStreamRef].live

\* C27: while screen sharing is active, the ended signal on the screen track
\* reverses the toggle: isScreenSharing is false, the camera track is on the
\* video sender, the capture is released and no display capture is requested.
EndedReversesShare ==
    \A s \in 1..Len(streams[Me]) :
        (/\ hook[Me].isScreenSharing /\ hook[Me].screenStreamRef = s
         /\ streams[Me][s].live /\ streams[Me][s].onended
         /\ hook[Me].peerConnectionRef # NoPc) =>
            LET L == onended(Me, [Local(Me) EXCEPT !.streams[s].live = FALSE], s)
            IN  /\ \A t \in L.tasks : t.kind # "toggleScreenShare:getDisplayMedia(onended)"
                /\ \/ \E t \in L.tasks : t.kind = "toggleScreenShare:replaceTrack(camera)"
                   \/ /\ ~L.hook.isScreenSharing
                      /\ L.hook.screenStreamRef = NoStream
                      /\ L.pcs[hook[Me].peerConnectionRef].videoSender
                            = hook[Me].localStreamRef

MissingTrackReported ==
    LET h  == hook[Me]
        s  == h.localStreamRef
        L0 == Local(Me)
        V  == toggleVideoStable(Me, L0)
        A  == toggleAudioStable(Me, L0)
    IN  (h.callStatus # "idle" /\ h.otherUser # NoUser) =>
          /\ (s = NoStream \/ ~streams[Me][s].hasVideo) =>
                /\ V.streams = L0.streams
                /\ V.hook.isVideoEnabled = h.isVideoEnabled
                /\ V.hook.error # NoError
          /\ s = NoStream =>
                /\ A.streams = L0.streams
                /\ A.hook.isAudioEnabled = h.isAudioEnabled
                /\ A.hook.error # NoError


\* C22: in src/hooks/useWebRTC.ts every local ICE candidate found by the
\* connection of the present call (callId and remote endpoint set by startCall
\* or answerCall) is emitted as webrtc-ice-candidate to that endpoint with that
\* callId, whatever callId was current when the connection's handlers were
\* created.
LocalCandidatesTagged ==
    LET L == Local(Me)
        p == L.hook.peerConnectionRef
    IN  (/\ p # NoPc
         /\ L.hook.callId # NoCallId
         /\ L.hook.otherUserIdRef # NoUser
         /\ ~L.pcs[p].closed
         /\ L.pcs[p].localDescription)
        => LET out == Emitted(onicecandidateLegacy(Me, L, p))
           IN  /\ Len(out) = 1
               /\ out[1].msg.type = "webrtc-ice-candidate"
               /\ out[1].msg.to = L.hook.otherUserIdRef
               /\ out[1].msg.callId = L.hook.callId

\* C30: getUserMedia of src/hooks/useWebRTC.ts repeats the capture request, once
\* and with plain constraints, exactly when the first request fails with an
\* OverconstrainedError; the second request is never repeated; if it resolves
\* its stream becomes the local stream, and if it fails an error message is set
\* and no session is set up.
RetryIffOverconstrained ==
    \A t \in MediaTasksLegacy(Me), o \in MediaOutcomes :
        LET L  == Local(Me)
            L1 == getUserMediaSettledLegacy(Me, L, t, o)
            again == {u \in L1.tasks \ (L.tasks \ {t}) : u.kind \in RetryKinds}
        IN  IF t.kind \notin RetryKinds
            THEN (again # {}) <=> (o.name = "OverconstrainedError")
            ELSE /\ again = {}
                 /\ MediaTasksLegacy(Me) \cap L1.tasks = MediaTasksLegacy(Me) \ {t}
                 /\ o.name = "ok" =>
                        /\ L1.hook.localStreamRef = Len(L1.streams)
                        /\ Len(L1.streams) = Len(L.streams) + 1
                 /\ o.name # "ok" =>
                        /\ Len(L1.pcs) = Len(L.pcs)
                        /\ Len(L1.streams) = Len(L.streams)
                        /\ t.kind \in StartKinds => L1.hook.error # NoError


\* C31: a candidate the connection rejects aborts neither the drain nor the
\* call.  A malformed candidate that arrives with the gate open is handed to
\* the connection and changes nothing else: status and error stay, nothing is
\* emitted, nothing is closed.  A step of a drain goes the same way whether
\* the awaited addIceCandidate resolved or rejected, and in the session of the
\* connection being drained it leaves status and error alone and ends nothing.
\* Each step hands the next queued candidate to the connection being drained,
\* where a well-formed one is applied, and goes on to the rest of the queue;
\* the step after the last one clears the queue.
CandidateFailureSkipped ==
    LET L == Local(Me)
        p == Cur(Me)
    IN  /\ (p # NoPc /\ L.hook.isRemoteDescriptionSetRef) =>
              \A m \in BadIceMsgs(Me) :
                 Handled(Me, L, m) =
                     [L EXCEPT !.pcs[p].received = Append(@, m.cand),
                               !.pcs[p].invalid = Append(@, m.cand)]
        /\ \A t \in tasks[Me], ok \in BOOLEAN :
              t.kind \in {"handleOffer:addIceCandidate", "handleAnswer:addIceCandidate"} =>
                 LET L1 == Resumed(Me, L, t, ok)
                 IN  /\ L1 = Resumed(Me, L, t, TRUE)
                     /\ L1.log = <<>>
                     /\ t.pc = p =>
                            /\ L1.hook.callStatus = L.hook.callStatus
                            /\ L1.hook.error = L.hook.error
                            /\ L1.hook.peerConnectionRef = p
                     /\ IF t.queue = <<>>
                        THEN L1.hook.iceCandidateQueueRef = <<>>
                        ELSE /\ [t EXCEPT !.queue = Tail(@)] \in L1.tasks
                             /\ Len(L1.pcs[t.pc].applied) + Len(L1.pcs[t.pc].invalid)
                                   = Len(L.pcs[t.pc].applied) + Len(L.pcs[t.pc].invalid) + 1
                             /\ Head(t.queue) \in Range(L1.pcs[t.pc].applied)
                                                    \cup Range(L1.pcs[t.pc].invalid)
                             /\ (Head(t.queue) > 0 /\ L.pcs[t.pc].remoteDescription
                                    /\ ~L.pcs[t.pc].closed) =>
                                   L1.pcs[t.pc].applied = Append(L.pcs[t.pc].applied, Head(t.queue))

\* A malformed candidate was queued ahead of a well-formed one; the drain is
\* over, the well-formed one is on the connection, and the call goes on with
\* no error.
CandidateFailureSkippedWitness ==
    LET p == Cur(Me)
    IN  /\ p # NoPc
        /\ hook[Me].isRemoteDescriptionSetRef
        /\ ~Draining(Me)
        /\ Len(pcs[Me][p].queued) >= 2
        /\ pcs[Me][p].queued[1] < 0
        /\ pcs[Me][p].queued[2] > 0
        /\ pcs[Me][p].queued[2] \in Range(pcs[Me][p].applied)
        /\ pcs[Me][p].queued[1] \in Range(pcs[Me][p].invalid)
        /\ hook[Me].iceCandidateQueueRef = <<>>
        /\ hook[Me].callStatus # "idle"
        /\ hook[Me].error = NoError

\* C32: when the initiator has handled the call-rejected of the call it is
\* waiting on, the hook's error holds the rejection message.
RejectionSurfaced ==
    \A m \in EndMsgs(Me) :
        (/\ m.type = "call-rejected"
         /\ m.callId = hook[Me].callIdRef
         /\ hook[Me].isInitiatorRef
         /\ hook[Me].callStatus = "calling") =>
            Handled(Me, Local(Me), m).hook.error = "Call rejected"

\* C33: a webrtc-answer for a call is emitted only by a connection to which an
\* offer has been applied as remote description, with the gate open and with
\* every candidate that was queued for that call applied to it; and a
\* webrtc-offer is emitted only for a call Me started, by the handler of a
\* call-accepted for that call.
NegotiationOrdered ==
    \A t \in tasks[Me], ok \in BOOLEAN :
        LET L   == Local(Me)
            L1  == Resumed(Me, L, t, ok)
            out == Emitted(L1)
        IN  \A i \in 1..Len(out) :
               LET m == out[i].msg
               IN  /\ m.type = "webrtc-answer" =>
                      /\ L1.pcs[t.pc].remoteDescription
                      /\ "webrtc-offer" \in L1.pcs[t.pc].seen
                      /\ \A q \in 1..Len(L1.pcs) :
                            L1.pcs[q].callId = m.callId =>
                               Range(L1.pcs[q].queued) \subseteq Range(L1.pcs[t.pc].applied)
                   /\ m.type = "webrtc-offer" =>
                      /\ t.kind = "handleCallAccepted:setLocalDescription"
                      /\ calls[m.callId].from = Me
                      /\ "call-accepted" \in L1.pcs[t.pc].seen

\* C36: ICE state does not leak from one call into another.  A continuation
\* that creates a connection leaves the queue empty and the gate closed, and
\* the new connection has had no candidate.  A candidate that arrives for a
\* callId is applied only to a connection created for that callId, and a drain
\* hands the candidates of its queue only to the connection they were queued
\* on, which was created for the call whose description started the drain.
IceStateIsolated ==
    LET L == Local(Me)
    IN  /\ \A t \in tasks[Me], ok \in BOOLEAN :
              LET L1 == Resumed(Me, L, t, ok)
              IN  Len(L1.pcs) > Len(L.pcs) =>
                     /\ L1.hook.iceCandidateQueueRef = <<>>
                     /\ ~L1.hook.isRemoteDescriptionSetRef
                     /\ L1.pcs[Len(L1.pcs)].received = <<>>
                     /\ L1.pcs[Len(L1.pcs)].applied = <<>>
        /\ \A m \in IceMsgs(Me) \cup StaleIceMsgs(Me) :
              LET L1 == Handled(Me, L, m)
              IN  \A p \in 1..Len(L.pcs) :
                     L1.pcs[p].applied # L.pcs[p].applied => L.pcs[p].callId = m.callId
        /\ \A t \in tasks[Me], ok \in BOOLEAN :
              (/\ t.kind \in {"handleOffer:addIceCandidate", "handleAnswer:addIceCandidate"}
               /\ t.queue # <<>>) =>
                 /\ Range(t.queue) \subseteq Range(L.pcs[t.pc].queued)
                 /\ Resumed(Me, L, t, ok).pcs[t.pc].applied # L.pcs[t.pc].applied =>
                       L.pcs[t.pc].callId = t.callId

\* C34: a userId is in the registry, mapped to a socket that is connected,
\* exactly when some socket that authenticated with that userId is connected.
RegistryTracksSockets ==
    \A u \in Users :
        (Registered(u) /\ sockets[onlineUsers[u]].connected)
            <=> (\E s \in 1..Len(sockets) :
                    sockets[s].connected /\ sockets[s].userId = u)

\* The callee-side name of a forwarded event.
ForwardedAs(type) ==
    CASE type = "initiate-call" -> "call-initiated"
      [] type = "accept-call" -> "call-accepted"
      [] type = "reject-call" -> "call-rejected"
      [] type = "end-call" -> "call-ended"
      [] OTHER -> type

\* C35: whatever a connected socket sends, the relay emits at most one event.
\* When the payload's `to` is registered, it is the forwarded event, emitted
\* to the socket registered for `to` and to no other, with `from` the sender's
\* handshake userId and the payload's callId.  When `to` is not registered,
\* nothing is emitted to anybody, except for an initiate-call, which is
\* answered to the sending socket with a call-rejected in the target's name.
RelayRoutes ==
    /\ \A s \in 1..Len(sockets), data \in SignalData :
          sockets[s].connected =>
             LET E == Emits(s, data)
             IN  /\ Cardinality(E) <= 1
                 /\ Registered(data.to) =>
                       /\ E # {}
                       /\ \A d \in E :
                             /\ d.socket = onlineUsers[data.to]
                             /\ d.msg.type = ForwardedAs(data.type)
                             /\ d.msg.from = sockets[s].userId
                             /\ d.msg.to = data.to
                             /\ d.msg.callId = data.callId
                 /\ (~Registered(data.to) /\ data.type # "initiate-call") => E = {}
                 /\ (~Registered(data.to) /\ data.type = "initiate-call") =>
                       E = {[socket |-> s,
                             msg |-> Msg("call-rejected", data.to, sockets[s].userId,
                                         data.callId, 0, FALSE)]}
    /\ \A d \in emits :
          /\ d.msg.type \in {ForwardedAs(t) : t \in SignalTypes}
          /\ sockets[d.socket].userId = d.msg.to

\* An event was forwarded to the socket registered for its target while an
\* older socket of the same user is still connected, and it names its sender.
RelayRoutesWitness ==
    \E d \in emits :
        /\ d.msg.type = "call-ended"
        /\ d.socket = onlineUsers[d.msg.to]
        /\ d.msg.from \in Users \ {d.msg.to}
        /\ \E q \in 1..Len(sockets) :
              q # d.socket /\ sockets[q].connected /\ sockets[q].userId = d.msg.to

\* Each of A and B was calling when the other's call-initiated arrived:
\* CallProvider emits reject-call for an incoming call only then.
Glare == Sent(Caller, "reject-call") > 0 /\ Sent(Callee, "reject-call") > 0

\* c is idle and shows no incoming-call prompt.
Quiet(c) == hook[c].callStatus = "idle" /\ provider[c].incomingCall = NoCall

\* A and B are connected, each on a call id of its own.
SplitCall ==
    /\ hook[Caller].callStatus = "connected"
    /\ hook[Callee].callStatus = "connected"
    /\ hook[Caller].callIdRef # hook[Callee].callIdRef

\* C37: once both sides of a glare have had the other's call-initiated while
\* calling, both end up idle with no prompt, for good; and the two are never
\* connected on different call ids.
GlareResolves ==
    /\ [](Glare => <>[](Quiet(Caller) /\ Quiet(Callee)))
    /\ []~SplitCall

\* Both calls were started, both were auto-rejected, and the two users are
\* idle again with nothing left in flight.
GlareResolvesWitness ==
    /\ Glare
    /\ Sent(Caller, "initiate-call") = 1
    /\ Sent(Callee, "initiate-call") = 1
    /\ Quiet(Caller) /\ Quiet(Callee)
    /\ toRelay = EmptyBag /\ toClient = EmptyBag
    /\ \A c \in Users : tasks[c] = {}

\* The caller has hung up: its end-call is out.
Cancelled == Sent(Caller, "end-call") > 0

\* C38: once the caller has cancelled, the receiver ends up idle with no
\* incoming-call prompt, for good, in whatever order the caller's events
\* reach it.
CancelClears == [](Cancelled => <>[](\A u \in Users \ {Caller} : Quiet(u)))

\* C39: over one call the two peers emit at most two end-call events between
\* them, and a call-ended that reaches a peer whose session is already over
\* is answered with nothing.
TerminationQuiesces ==
    /\ Sent(Caller, "end-call") + Sent(Callee, "end-call") <= 2
    /\ \A m \in BagToSet(toClient) :
          (m.type = "call-ended" /\ hook[m.to].callIdRef = NoCallId) =>
              Emitted(Handled(m.to, Local(m.to), m)) = <<>>

\* The call was accepted, one user hung up, the other end echoed its end-call,
\* and both echoes have been delivered: both are idle and the wire is empty.
TerminationQuiescesWitness ==
    /\ Sent(Callee, "accept-call") = 1
    /\ Sent(Caller, "end-call") = 1
    /\ Sent(Callee, "end-call") = 1
    /\ toRelay = EmptyBag /\ toClient = EmptyBag
    /\ Quiet(Caller) /\ Quiet(Callee)
    /\ \A c \in Users : tasks[c] = {}

====
